---- MODULE Spec2Model ----
(***************************************************************************)
(* AE Trend Analyzer: the FAERS join pipeline (src/src/etl), the anomaly   *)
(* detection engine (src/src/analysis/anomaly.py), the monthly             *)
(* aggregations (aggregate.py) and the spike summaries (insights.py).      *)
(*                                                                         *)
(* A DataFrame is a sequence of rows, a row a record of its columns.  A    *)
(* missing value (NaN / None) is the string NaN, a missing date is NaT.    *)
(* The columns sex, age and country of DEMO are carried through            *)
(* build_events untouched and take part in no key, filter or count; they   *)
(* are left out of the rows.                                               *)
(***************************************************************************)
EXTENDS Integers, Sequences, FiniteSets, TLC

VARIABLES
    pc,               \* position in build_events / process_faers_data
    df_in,            \* the tables of df_dict the last step read
    initial_demo_count, \* the local of that name in build_events
    events,           \* the events table of build_events / load_quarter_data
    log,              \* the diagnostics the current build_events call emitted
    nq,               \* number of quarter folders the loop goes over
    quarters,         \* the list quarters of process_faers_data
    processed,        \* the folders announced by "Processing {quarter.name}"
    loaded,           \* the file types load_faers_ascii returned for the quarter
    qi,               \* number of quarters the loop has processed
    all_events,       \* the list all_events of process_faers_data
    combined_events,  \* the return value of process_faers_data
    statsmodels_installed, \* whether "from statsmodels.tsa.seasonal import STL" succeeds
    prophet_installed,     \* whether "from prophet import Prophet" succeeds
    call,             \* the last call into the anomaly module, with its arguments
    ret               \* what that call returned or raised

anomVars == <<statsmodels_installed, prophet_installed, call, ret>>

etlData == <<df_in, initial_demo_count, events, log, nq, quarters, processed, loaded,
             qi, all_events, combined_events>>

etlVars == <<pc, etlData>>

vars == <<etlVars, anomVars>>

(***************************************************************************)
(* Bounds of the model.                                                    *)
(***************************************************************************)
MaxQuarters == 2
QuarterRows == 1
MaxDemo == 2
MaxReac == 2
MaxDrug == 2
MaxOutc == 2
MaxRawRows == 3
MaxSeriesLen == 6
MaxWindow == 6

(***************************************************************************)
(* Values.                                                                 *)
(***************************************************************************)
NaN == "NaN"
NaT == 0
CaseIds == {"A", "B"}
EventDates == {20200115}
Reactions == {"NAUSEA"}
Drugs == {"ASPIRIN"}
SeriousFlags == {"True", "False"}
CaseIdOrder == <<"A", "B">>

SeqsUpTo(S, n) == UNION {[1..k -> S] : k \in 0..n}

\* A column _normalize_column resolved holds strings in every row; one it did
\* not resolve is missing in every row.
KeyChoices == {CaseIds, {NaN}}

DemoTables(n) ==
    UNION {SeqsUpTo([case_id : K, event_date : EventDates \cup {NaT}], n)
           : K \in KeyChoices}

ReacTables(n) ==
    UNION {SeqsUpTo([case_id : K, reaction_pt : P], n)
           : K \in KeyChoices, P \in {Reactions, {NaN}}}

DrugTables(n) ==
    UNION {SeqsUpTo([case_id : K, drug : D], n)
           : K \in KeyChoices, D \in {Drugs, {NaN}}}

OutcTables(n) ==
    UNION {SeqsUpTo([case_id : K, serious : SeriousFlags], n)
           : K \in KeyChoices}

Restrict(f, S) == [x \in S |-> f[x]]

\* df_dict with one optional table: present with the rows given, or absent
NoTables == Restrict(<<>>, {})
OneTable(name, present, rows) == IF present THEN (name :> rows) ELSE NoTables
TableChoices(name, tables) == {NoTables} \cup {name :> rows : rows \in tables}

(***************************************************************************)
(* pandas primitives used by build_events.                                 *)
(***************************************************************************)
RECURSIVE Concat(_)
Concat(ss) == IF ss = <<>> THEN <<>> ELSE Head(ss) \o Concat(Tail(ss))

\* DataFrame.merge(right, on='case_id', how='inner'): every left row, in
\* order, paired with every right row of the same key (missing keys match
\* each other).
MatchingRows(l, right) == SelectSeq(right, LAMBDA r : r.case_id = l.case_id)

\* mutant: the join ignores the key (every left row with every right row)
MergeInnerAllPairs(left, right) ==
    Concat([i \in 1..Len(left) |-> [j \in 1..Len(right) |-> left[i] @@ right[j]]])

MergeInner(left, right) ==
    Concat([i \in 1..Len(left) |->
              LET m == MatchingRows(left[i], right)
              IN  [j \in 1..Len(m) |-> left[i] @@ m[j]]])

\* mutant: how='inner' where how='left' was meant
MergeLeftMatchedOnly(left, right, cols) ==
    Concat([i \in 1..Len(left) |->
              LET m == MatchingRows(left[i], right)
              IN  [j \in 1..Len(m) |-> left[i] @@ m[j]]])

\* DataFrame.merge(right, on='case_id', how='left'): as the inner merge, and
\* a left row without a match is kept once with the right columns missing.
MergeLeft(left, right, cols) ==
    Concat([i \in 1..Len(left) |->
              LET m == MatchingRows(left[i], right)
              IN  IF m = <<>>
                  THEN <<left[i] @@ [c \in cols |-> NaN]>>
                  ELSE [j \in 1..Len(m) |-> left[i] @@ m[j]]])

\* DataFrame.dropna(subset=cols)
DropNa(df, cols) == SelectSeq(df, LAMBDA r : \A c \in cols : r[c] # NaN)

\* DataFrame.drop_duplicates(subset=cols): the first row of every key stays;
\* missing values are equal to each other.
SameKey(r, s, cols) == \A c \in cols : r[c] = s[c]

\* mutant: drop_duplicates() without subset=, whole rows are compared
DropDuplicatesWholeRow(df, cols) ==
    LET idx == {i \in 1..Len(df) : \A j \in 1..(i - 1) : df[j] # df[i]}
        RECURSIVE pick(_)
        pick(i) == IF i > Len(df) THEN <<>>
                   ELSE (IF i \in idx THEN <<df[i]>> ELSE <<>>) \o pick(i + 1)
    IN  pick(1)

DropDuplicates(df, cols) ==
    LET keep(i) == \A j \in 1..(i - 1) : ~SameKey(df[j], df[i], cols)
        idx == {i \in 1..Len(df) : keep(i)}
        RECURSIVE pick(_)
        pick(i) == IF i > Len(df) THEN <<>>
                   ELSE (IF i \in idx THEN <<df[i]>> ELSE <<>>) \o pick(i + 1)
    IN  pick(1)

\* DataFrame.sort_values('event_date'): ascending, missing dates last, rows of
\* equal date in their former order.
DateBefore(a, b) == a # NaT /\ (b = NaT \/ a < b)

SortValues(df) ==
    LET rank(i) == Cardinality({j \in 1..Len(df) :
                       \/ DateBefore(df[j].event_date, df[i].event_date)
                       \/ /\ ~DateBefore(df[i].event_date, df[j].event_date)
                          /\ j < i})
    IN  [k \in 1..Len(df) |-> df[CHOOSE i \in 1..Len(df) : rank(i) = k - 1]]

\* events[col] = value
SetColumn(df, col, value) == [i \in 1..Len(df) |-> df[i] @@ (col :> value)]

(***************************************************************************)
(* FAERS_CONFIG thresholds (percent).                                      *)
(***************************************************************************)
JoinLossWarningThreshold == 20
JoinLossModerateThreshold == 10
KeyOverlapWarningThreshold == 80
TotalLossHighThreshold == 30
TotalLossModerateThreshold == 15

(***************************************************************************)
(* Join diagnostics.  A percentage p = 100 * num / den is compared with a  *)
(* threshold t as 100 * num > t * den (den > 0).                           *)
(***************************************************************************)
\* _log_join_stats: the diagnostic it logs, with the class of its message.
\* mutant: the thresholds themselves already count as exceeded
InnerJoinClassAtLeast(before_count, after_count) ==
    LET rows_lost == before_count - after_count
        over(t) == before_count > 0 /\ 100 * rows_lost >= t * before_count
    IN  IF over(JoinLossWarningThreshold) THEN "HIGH"
        ELSE IF over(JoinLossModerateThreshold) THEN "MODERATE"
        ELSE IF rows_lost > 0 THEN "MINOR"
        ELSE "PERFECT"

\* the class _log_join_stats reports for an inner join; loss_percent > t is
\* decided on the counts
InnerJoinClass(before_count, after_count) ==
    LET rows_lost == before_count - after_count
        over(t) == before_count > 0 /\ 100 * rows_lost > t * before_count
    IN  IF over(JoinLossWarningThreshold) THEN "HIGH"
        ELSE IF over(JoinLossModerateThreshold) THEN "MODERATE"
        ELSE IF rows_lost > 0 THEN "MINOR"
        ELSE "PERFECT"

LogJoinStats(before_count, after_count, join_type, table_name, join_method) ==
    IF join_method = "inner"
    THEN [kind |-> "join", join_type |-> join_type, join_method |-> join_method,
          before |-> before_count, after |-> after_count,
          rows_lost |-> before_count - after_count,
          class |-> InnerJoinClass(before_count, after_count)]
    ELSE [kind |-> "join", join_type |-> join_type, join_method |-> join_method,
          before |-> before_count, after |-> after_count,
          rows_lost |-> before_count - after_count,
          class |-> IF after_count = before_count THEN "PRESERVED"
                    ELSE IF after_count - before_count > 0 THEN "ADDED"
                    ELSE "UNEXPECTED_LOSS"]

\* f"{p:.1f}" for the percentage p = num / den (den > 0, num >= 0): rounded
\* to the nearest tenth, a tie to the even one
FormatPercent(num, den) ==
    LET scaled == 10 * num
        floor == scaled \div den
        rest == 2 * (scaled % den)
        tenths == IF rest > den \/ (rest = den /\ floor % 2 = 1) THEN floor + 1 ELSE floor
    IN  ToString(tenths \div 10) \o "." \o ToString(tenths % 10)

\* mutant: dropna() forgotten, the missing key counts as a key
KeySetWithMissing(df) == {df[i].case_id : i \in 1..Len(df)}

\* the de-duplicated non-null keys of a table
KeySet(df) == {df[i].case_id : i \in 1..Len(df)} \ {NaN}

\* _analyze_key_overlap: the overlap statistics it logs and whether it warns.
\* mutant: an overlap of exactly the threshold already warns
LowOverlapAtMost(overlap, left) ==
    IF left = 0 THEN 0 <= KeyOverlapWarningThreshold
    ELSE 100 * overlap <= KeyOverlapWarningThreshold * left

\* overlap_percent < overlap_warning_threshold, decided on the counts
LowOverlap(overlap, left) ==
    IF left = 0 THEN 0 < KeyOverlapWarningThreshold
    ELSE 100 * overlap < KeyOverlapWarningThreshold * left

AnalyzeKeyOverlap(left_df, right_df, left_name, right_name) ==
    LET left_keys == KeySet(left_df)
        right_keys == KeySet(right_df)
        overlap_keys == left_keys \cap right_keys
    IN  [kind |-> "overlap", left_name |-> left_name, right_name |-> right_name,
         left_keys |-> Cardinality(left_keys),
         right_keys |-> Cardinality(right_keys),
         overlap |-> Cardinality(overlap_keys),
         left_only |-> Cardinality(left_keys \ right_keys),
         right_only |-> Cardinality(right_keys \ left_keys),
         overlap_percent |-> IF left_keys = {} THEN "0.0"
                             ELSE FormatPercent(100 * Cardinality(overlap_keys),
                                                Cardinality(left_keys)),
         low_overlap |-> LowOverlap(Cardinality(overlap_keys), Cardinality(left_keys))]

\* the pipeline summary at the end of build_events
PipelineSummary(demo_count, after_dedup) ==
    LET total_loss == demo_count - after_dedup
        over(t) == demo_count > 0 /\ 100 * total_loss > t * demo_count
    IN  [kind |-> "summary", before |-> demo_count, after |-> after_dedup,
         class |-> IF over(TotalLossHighThreshold) THEN "HIGH"
                   ELSE IF over(TotalLossModerateThreshold) THEN "MODERATE"
                   ELSE "ACCEPTABLE"]

(***************************************************************************)
(* build_events                                                            *)
(***************************************************************************)
DedupKey == {"case_id", "drug", "reaction_pt", "event_date"}

HasTable(df_dict, t) == t \in DOMAIN df_dict /\ df_dict[t] # <<>>

\* mutant: the flag of the first outcome row of the case, not the largest
OutcomesSeriousFirst(outcomes) ==
    LET keys == KeySet(outcomes)
        ordered == SelectSeq(CaseIdOrder, LAMBDA k : k \in keys)
        first(k) == SelectSeq(outcomes, LAMBDA r : r.case_id = k)[1].serious
    IN  [i \in 1..Len(ordered) |-> [case_id |-> ordered[i], serious |-> first(ordered[i])]]

\* outcomes.groupby('case_id')['serious'].max().reset_index(): one row per
\* non-null case_id, in key order, holding the largest flag of the case.
OutcomesSerious(outcomes) ==
    LET keys == KeySet(outcomes)
        ordered == SelectSeq(CaseIdOrder, LAMBDA k : k \in keys)
        max(k) == IF \E i \in 1..Len(outcomes) :
                        outcomes[i].case_id = k /\ outcomes[i].serious = "True"
                  THEN "True" ELSE "False"
    IN  [i \in 1..Len(ordered) |-> [case_id |-> ordered[i], serious |-> max(ordered[i])]]

\* mutant: the keys are analysed after the join, on the joined table
InnerJoinStepAnalysedAfter(df_dict) ==
    LET demo == df_dict["DEMO"]
        reactions == df_dict["REAC"]
        joined == MergeInner(demo, reactions)
    IN  [events |-> joined,
         log |-> << LogJoinStats(Len(demo), Len(joined), "DEMO with REAC", "REAC", "inner"),
                    AnalyzeKeyOverlap(joined, reactions, "DEMO", "REAC") >>]

\* the mandatory join: DEMO x REAC on case_id
InnerJoinStep(df_dict) ==
    LET demo == df_dict["DEMO"]
        reactions == df_dict["REAC"]
        joined == MergeInner(demo, reactions)
    IN  [events |-> joined,
         log |-> << AnalyzeKeyOverlap(demo, reactions, "DEMO", "REAC"),
                    LogJoinStats(Len(demo), Len(joined), "DEMO with REAC", "REAC", "inner") >>]

\* mutant: a missing DRUG table is joined as an empty one, no sentinel is set
DrugStepJoinsEmpty(df_dict, ev) ==
    LET drugs == IF HasTable(df_dict, "DRUG") THEN df_dict["DRUG"] ELSE <<>>
        joined == MergeLeft(ev, drugs, {"drug"})
    IN  [events |-> joined,
         log |-> << AnalyzeKeyOverlap(ev, drugs, "EVENTS", "DRUG"),
                    LogJoinStats(Len(ev), Len(joined), "EVENTS with DRUG", "DRUG", "left") >>]

\* the drug step: left join when a DRUG table is there, the sentinel otherwise
DrugStep(df_dict, ev) ==
    IF HasTable(df_dict, "DRUG")
    THEN LET drugs == df_dict["DRUG"]
             joined == MergeLeft(ev, drugs, {"drug"})
         IN  [events |-> joined,
              log |-> << AnalyzeKeyOverlap(ev, drugs, "EVENTS", "DRUG"),
                         LogJoinStats(Len(ev), Len(joined), "EVENTS with DRUG", "DRUG", "left") >>]
    ELSE [events |-> SetColumn(ev, "drug", "UNKNOWN"),
          log |-> << [kind |-> "warning", what |-> "no DRUG table"] >>]

\* mutant: an event without an outcome row gets False, as without a table
OutcStepFillsFalse(df_dict, ev) ==
    IF HasTable(df_dict, "OUTC")
    THEN LET outcomes_serious == OutcomesSerious(df_dict["OUTC"])
             joined == MergeLeft(ev, outcomes_serious, {"serious"})
         IN  [events |-> [i \in 1..Len(joined) |->
                             [joined[i] EXCEPT !.serious = IF @ = NaN THEN "False" ELSE @]],
              log |-> << AnalyzeKeyOverlap(ev, outcomes_serious, "EVENTS", "OUTC"),
                         LogJoinStats(Len(ev), Len(joined), "EVENTS with OUTC", "OUTC", "left") >>]
    ELSE [events |-> SetColumn(ev, "serious", "False"),
          log |-> << [kind |-> "warning", what |-> "no serious flag"] >>]

\* the outcome step: left join against the per-case maximum, else False
OutcStep(df_dict, ev) ==
    IF HasTable(df_dict, "OUTC")
    THEN LET outcomes_serious == OutcomesSerious(df_dict["OUTC"])
             joined == MergeLeft(ev, outcomes_serious, {"serious"})
         IN  [events |-> joined,
              log |-> << AnalyzeKeyOverlap(ev, outcomes_serious, "EVENTS", "OUTC"),
                         LogJoinStats(Len(ev), Len(joined), "EVENTS with OUTC", "OUTC", "left") >>]
    ELSE [events |-> SetColumn(ev, "serious", "False"),
          log |-> << [kind |-> "warning", what |-> "no serious flag"] >>]

\* the clean-up at the end: null filter, de-duplication, pipeline summary
CleanStep(ev, demo_count) ==
    LET cleaned == DropNa(ev, {"case_id", "reaction_pt"})
        deduped == DropDuplicates(cleaned, DedupKey)
    IN  [events |-> deduped,
         log |-> << [kind |-> "cleanup", before |-> Len(ev), after |-> Len(cleaned)],
                    [kind |-> "dedup", before |-> Len(cleaned), after |-> Len(deduped)],
                    PipelineSummary(demo_count, Len(deduped)) >>]

MissingRequired == [events |-> <<>>,
                    log |-> << [kind |-> "error", what |-> "missing required tables"] >>]

\* build_events as one call
\* mutant: DEMO is optional, the reactions alone make the events
BuildEventsDemoOptional(df_dict) ==
    IF "REAC" \notin DOMAIN df_dict THEN MissingRequired
    ELSE IF "DEMO" \notin DOMAIN df_dict
    THEN [events |-> df_dict["REAC"], log |-> <<>>]
    ELSE LET s1 == InnerJoinStep(df_dict)
             s2 == DrugStep(df_dict, s1.events)
             s3 == OutcStep(df_dict, s2.events)
             s4 == CleanStep(s3.events, Len(df_dict["DEMO"]))
         IN  [events |-> s4.events,
              log |-> s1.log \o s2.log \o s3.log \o s4.log]

BuildEvents(df_dict) ==
    IF "DEMO" \notin DOMAIN df_dict \/ "REAC" \notin DOMAIN df_dict
    THEN MissingRequired
    ELSE LET s1 == InnerJoinStep(df_dict)
             s2 == DrugStep(df_dict, s1.events)
             s3 == OutcStep(df_dict, s2.events)
             s4 == CleanStep(s3.events, Len(df_dict["DEMO"]))
         IN  [events |-> s4.events,
              log |-> s1.log \o s2.log \o s3.log \o s4.log]

\* normalize_faers_schema: an empty table is left out of the result.  The
\* tables hold their values in canonical form already.
NormalizeFaersSchema(df_dict) ==
    Restrict(df_dict, {t \in DOMAIN df_dict : df_dict[t] # <<>>})

\* load_quarter_data
LoadQuarterData(df_dict) ==
    IF DOMAIN df_dict = {} \/ "REAC" \notin DOMAIN df_dict
    THEN [events |-> <<>>, log |-> <<>>]
    ELSE BuildEvents(NormalizeFaersSchema(df_dict))

(***************************************************************************)
(* Anomaly detection (src/src/analysis/anomaly.py).                        *)
(*                                                                         *)
(* A Timestamp is the integer YYYYMMDD, NaT the missing one.  A Series is  *)
(* a sequence of [index, value] rows.  Values are integers (monthly        *)
(* counts) and the statistics are exact: a mean is the pair <<sum, n>>, a  *)
(* standard deviation is kept as its square, a z-score as its sign and its *)
(* square, and |z| > t is decided on the squares.                          *)
(***************************************************************************)
NoCall == [fn |-> "none"]
Returned(columns, rows) == [raised |-> "none", columns |-> columns, rows |-> rows]
Raised(exc) == [raised |-> exc, columns |-> <<>>, rows |-> <<>>]

RECURSIVE SumOf(_)
SumOf(xs) == IF xs = <<>> THEN 0 ELSE Head(xs) + SumOf(Tail(xs))

Squares(xs) == [i \in 1..Len(xs) |-> xs[i] * xs[i]]
Values(series) == [i \in 1..Len(series) |-> series[i].value]
Sign(x) == IF x > 0 THEN 1 ELSE IF x < 0 THEN -1 ELSE 0

\* dt.to_period('M').dt.start_time: the first day of the timestamp's month
MonthStart(ts) == IF ts = NaT THEN NaT ELSE (ts \div 100) * 100 + 1

\* the month start after a month start (freq='MS')
NextMonthStart(ms) ==
    IF (ms \div 100) % 100 = 12 THEN ((ms \div 10000) + 1) * 10000 + 101
    ELSE ms + 100

\* pd.date_range(start, end, freq='MS') for month starts start <= end
RECURSIVE DateRangeMS(_, _)
DateRangeMS(start, end) ==
    IF start > end THEN <<>> ELSE <<start>> \o DateRangeMS(NextMonthStart(start), end)

SetMin(S) == CHOOSE x \in S : \A y \in S : x <= y
SetMax(S) == CHOOSE x \in S : \A y \in S : x >= y

\* df.groupby('month_start')[value_col].sum(): one entry per month that is
\* not NaT (a function from the month start to the sum of its rows)
GroupByMonthSum(df) ==
    LET months == {MonthStart(df[i].date) : i \in 1..Len(df)} \ {NaT}
        rows(m) == SelectSeq(df, LAMBDA r : MonthStart(r.date) = m)
    IN  [m \in months |-> SumOf([i \in 1..Len(rows(m)) |-> rows(m)[i].value])]

\* mutant: the reindex is left out, only the observed months remain
ReindexObservedOnly(monthly_data, full_range) ==
    LET kept == SelectSeq(full_range, LAMBDA m : m \in DOMAIN monthly_data)
    IN  [i \in 1..Len(kept) |-> [index |-> kept[i], value |-> monthly_data[kept[i]]]]

\* monthly_data.reindex(full_range, fill_value=0)
Reindex(monthly_data, full_range) ==
    [i \in 1..Len(full_range) |->
        [index |-> full_range[i],
         value |-> IF full_range[i] \in DOMAIN monthly_data
                   THEN monthly_data[full_range[i]] ELSE 0]]

\* ensure_monthly_index(df, date_col, value_col)
EnsureMonthlyIndex(df) ==
    IF df = <<>> THEN <<>>
    ELSE LET monthly_data == GroupByMonthSum(df)
         IN  IF DOMAIN monthly_data = {} THEN <<>>
             ELSE Reindex(monthly_data,
                          DateRangeMS(SetMin(DOMAIN monthly_data),
                                      SetMax(DOMAIN monthly_data)))

\* rolling_zscore defaults
DefaultWindow == 6
DefaultRollingZNum == 2
DefaultRollingZDen == 1

RollingColumns == <<"value", "mean", "std", "z", "is_spike">>

\* |z| > t for z given by its square z2 = <<num, den>> and t = <<p, q>>, q > 0
AbsExceeds(z2, t) ==
    IF t[1] < 0 THEN TRUE
    ELSE z2[1] * t[2] * t[2] > t[1] * t[1] * z2[2]

\* mutant: z_scores > z_thresh, the absolute value forgotten
IsSpikeUpwardOnly(z_sign, z2, z_thresh) == z_sign > 0 /\ AbsExceeds(z2, z_thresh)

\* is_spike = np.abs(z_scores) > z_thresh
IsSpike(z_sign, z2, z_thresh) == AbsExceeds(z2, z_thresh)

\* series.rolling(window=window, min_periods=1) at position i
RollingWindow(xs, i, window) ==
    SubSeq(xs, IF i - window + 1 < 1 THEN 1 ELSE i - window + 1, i)

\* mutant: the deviation of the window is the population one (ddof=0)
RollingRowPopulationStd(series, i, window, z_thresh) ==
    LET win == RollingWindow(Values(series), i, window)
        n == Len(win)
        s == SumOf(win)
        q == SumOf(Squares(win))
        varnum == n * q - s * s
        dev == n * series[i].value - s
        no_std == varnum = 0
        z2 == IF no_std THEN <<0, 1>> ELSE <<dev * dev, varnum>>
    IN  [index |-> series[i].index,
         value |-> series[i].value,
         mean |-> <<s, n>>,
         std2 |-> IF no_std THEN <<0, 1>> ELSE <<varnum, n * n>>,
         z_sign |-> IF no_std THEN 0 ELSE Sign(dev),
         z2 |-> z2,
         is_spike |-> IsSpike(IF no_std THEN 0 ELSE Sign(dev), z2, z_thresh)]

\* one row of rolling_zscore: the trailing mean, the sample variance (ddof=1;
\* undefined for one point, then filled with 0), z forced to 0 where the
\* deviation is 0 or undefined
RollingRow(series, i, window, z_thresh) ==
    LET win == RollingWindow(Values(series), i, window)
        n == Len(win)
        s == SumOf(win)
        q == SumOf(Squares(win))
        varnum == n * q - s * s
        dev == n * series[i].value - s
        no_std == n = 1 \/ varnum = 0
        z2 == IF no_std THEN <<0, 1>> ELSE <<(n - 1) * dev * dev, n * varnum>>
    IN  [index |-> series[i].index,
         value |-> series[i].value,
         mean |-> <<s, n>>,
         std2 |-> IF no_std THEN <<0, 1>> ELSE <<varnum, n * (n - 1)>>,
         z_sign |-> IF no_std THEN 0 ELSE Sign(dev),
         z2 |-> z2,
         is_spike |-> IsSpike(IF no_std THEN 0 ELSE Sign(dev), z2, z_thresh)]

\* mutant: the length guard is off by one (<= where < was meant)
RollingZscoreStrictLength(series, window, z_thresh) ==
    IF series = <<>> \/ Len(series) <= window
    THEN Returned(RollingColumns, <<>>)
    ELSE Returned(RollingColumns,
                  [i \in 1..Len(series) |-> RollingRow(series, i, window, z_thresh)])

\* rolling_zscore(series, window, z_thresh)
RollingZscore(series, window, z_thresh) ==
    IF series = <<>> \/ Len(series) < window
    THEN Returned(RollingColumns, <<>>)
    ELSE Returned(RollingColumns,
                  [i \in 1..Len(series) |-> RollingRow(series, i, window, z_thresh)])

\* stl_spikes / prophet_spikes defaults
DefaultPeriod == 12
DefaultStlZNum == 5
DefaultStlZDen == 2
ProphetMinLen == 24

StlColumns == <<"value", "trend", "seasonal", "resid", "z", "is_spike">>

\* The rows built from a residual: z on the residual's mean and sample
\* standard deviation over the whole series, 0 where that deviation is 0 or
\* undefined.  Trend and seasonal are the library's and are kept as their sum,
\* value - resid.
ResidualRow(series, resid, i, z_thresh) ==
    LET n == Len(resid)
        s == SumOf(resid)
        q == SumOf(Squares(resid))
        varnum == n * q - s * s
        dev == n * resid[i] - s
        no_std == n = 1 \/ varnum = 0
        z2 == IF no_std THEN <<0, 1>> ELSE <<(n - 1) * dev * dev, n * varnum>>
    IN  [index |-> series[i].index,
         value |-> series[i].value,
         fitted |-> series[i].value - resid[i],
         resid |-> resid[i],
         z_sign |-> IF no_std THEN 0 ELSE Sign(dev),
         z2 |-> z2,
         is_spike |-> IsSpike(IF no_std THEN 0 ELSE Sign(dev), z2, z_thresh)]

ResidualRows(series, resid, z_thresh) ==
    [i \in 1..Len(series) |-> ResidualRow(series, resid, i, z_thresh)]

\* mutant: one period is taken to be enough
StlTooShortOnePeriod(series, period) == series = <<>> \/ Len(series) < period

\* the guard of stl_spikes before the try block
StlTooShort(series, period) == series = <<>> \/ Len(series) < period * 2

\* mutant: the handler of internal failures is missing
StlDecomposeUnhandled(series, z_thresh, installed, fit) ==
    IF ~installed THEN Raised("ImportError")
    ELSE IF ~fit.ok THEN Raised("ValueError")
    ELSE Returned(StlColumns, ResidualRows(series, fit.resid, z_thresh))

\* the try block of stl_spikes: the import, the decomposition (the library's:
\* fit is what it does, an internal failure or a residual), the handlers
StlDecompose(series, z_thresh, installed, fit) ==
    IF ~installed THEN Raised("ImportError")
    ELSE IF ~fit.ok THEN Returned(StlColumns, <<>>)
    ELSE Returned(StlColumns, ResidualRows(series, fit.resid, z_thresh))

\* stl_spikes(series, period, z_thresh)
StlSpikes(series, period, z_thresh, installed, fit) ==
    IF StlTooShort(series, period) THEN Returned(StlColumns, <<>>)
    ELSE StlDecompose(series, z_thresh, installed, fit)

\* prophet_spikes(series, z_thresh)
ProphetSpikes(series, z_thresh, installed, fit) ==
    IF series = <<>> \/ Len(series) < ProphetMinLen THEN Returned(StlColumns, <<>>)
    ELSE IF ~installed THEN Raised("ImportError")
    ELSE IF ~fit.ok THEN Returned(StlColumns, <<>>)
    ELSE Returned(StlColumns, ResidualRows(series, fit.resid, z_thresh))

\* f(series, **kwargs): a keyword the function does not take is a TypeError,
\* a keyword left out takes its default
Kw(kwargs, name, default) == IF name \in DOMAIN kwargs THEN kwargs[name] ELSE default

InvokeRollingZscore(series, kwargs) ==
    IF ~(DOMAIN kwargs \subseteq {"window", "z_thresh"}) THEN Raised("TypeError")
    ELSE RollingZscore(series, Kw(kwargs, "window", DefaultWindow),
                       Kw(kwargs, "z_thresh", <<DefaultRollingZNum, DefaultRollingZDen>>))

InvokeStlSpikes(series, kwargs, installed, fit) ==
    IF ~(DOMAIN kwargs \subseteq {"period", "z_thresh"}) THEN Raised("TypeError")
    ELSE StlSpikes(series, Kw(kwargs, "period", DefaultPeriod),
                   Kw(kwargs, "z_thresh", <<DefaultStlZNum, DefaultStlZDen>>),
                   installed, fit)

InvokeProphetSpikes(series, kwargs, installed, fit) ==
    IF ~(DOMAIN kwargs \subseteq {"z_thresh"}) THEN Raised("TypeError")
    ELSE ProphetSpikes(series, Kw(kwargs, "z_thresh", <<DefaultStlZNum, DefaultStlZDen>>),
                       installed, fit)

\* method.lower()
Methods == {"stl", "STL", "rolling_z", "Rolling_Z", "prophet", "zscore"}
Lower(method) ==
    CASE method = "STL" -> "stl"
      [] method = "Rolling_Z" -> "rolling_z"
      [] OTHER -> method

\* the dispatch inside the try block of detect_anomalies
Dispatch(series, method, kwargs, sm_installed, pr_installed, fit) ==
    IF method = "stl" THEN InvokeStlSpikes(series, kwargs, sm_installed, fit)
    ELSE IF method = "rolling_z" THEN InvokeRollingZscore(series, kwargs)
    ELSE IF method = "prophet" THEN InvokeProphetSpikes(series, kwargs, pr_installed, fit)
    ELSE InvokeStlSpikes(series, kwargs, sm_installed, fit)

\* detect_anomalies(series, method, **kwargs): both handlers call
\* rolling_zscore(series, **kwargs); what that call raises propagates
DetectAnomalies(series, method, kwargs, sm_installed, pr_installed, fit) ==
    IF series = <<>> THEN Returned(<<"value", "z", "is_spike">>, <<>>)
    ELSE LET first == Dispatch(series, Lower(method), kwargs, sm_installed,
                               pr_installed, fit)
         IN  IF first.raised = "none" THEN first
             ELSE InvokeRollingZscore(series, kwargs)

(***************************************************************************)
(* rank_spikes and the summaries of src/src/analysis/insights.py.          *)
(***************************************************************************)
\* strftime('%Y-%m-%d')
Pad2(n) == IF n < 10 THEN "0" \o ToString(n) ELSE ToString(n)
StrfTime(ts) ==
    ToString(ts \div 10000) \o "-" \o Pad2((ts \div 100) % 100) \o "-" \o Pad2(ts % 100)

RankColumns == <<"rank", "date", "value", "z">>

Columns(df) == {df.columns[i] : i \in 1..Len(df.columns)}

\* a fraction of non-negative numerator and positive denominator in lowest terms
RECURSIVE Gcd(_, _)
Gcd(a, b) == IF b = 0 THEN a ELSE Gcd(b, a % b)
Lowest(f) == LET g == Gcd(f[1], f[2]) IN <<f[1] \div g, f[2] \div g>>

\* |a| > |b| for two z-scores given by their squares
AbsGreater(a2, b2) ==
    LET a == Lowest(a2)
        b == Lowest(b2)
    IN  a[1] * b[2] > b[1] * a[2]

\* mutant: ascending=False forgotten, the smallest |z| comes first
SortOrdersAscending(rows) ==
    {p \in Permutations(1..Len(rows)) :
        \A i \in 1..(Len(rows) - 1) : ~AbsGreater(rows[p[i]].z2, rows[p[i + 1]].z2)}

\* sort_values('abs_z', ascending=False): the orders the sort may leave the
\* rows in (the default sort is not stable: rows of equal |z| in any order)
SortOrders(rows) ==
    {p \in Permutations(1..Len(rows)) :
        \A i \in 1..(Len(rows) - 1) : ~AbsGreater(rows[p[i + 1]].z2, rows[p[i]].z2)}

\* mutant: head(k) forgotten, every ranked row is kept
HeadRowsNoLimit(rows, k) == rows

\* DataFrame.head(k): the first k rows, all but the last -k for a negative k
HeadRows(rows, k) ==
    LET n == IF k >= 0 THEN k ELSE Len(rows) + k
    IN  SubSeq(rows, 1, IF n > Len(rows) THEN Len(rows) ELSE IF n < 0 THEN 0 ELSE n)

\* one row of the ranked table
RankRow(r, rank, date_col, value_col, columns) ==
    [rank |-> rank,
     date |-> StrfTime(IF date_col # "" /\ date_col \in columns THEN r[date_col]
                       ELSE r.index),
     value |-> r[value_col],
     z_sign |-> r.z_sign,
     z2 |-> r.z2]

\* rank_spikes(df, date_col, value_col, k): the tables it may return
RankSpikes(df, date_col, value_col, k) ==
    IF df.rows = <<>> \/ "is_spike" \notin Columns(df) \/ "z" \notin Columns(df)
    THEN {Returned(RankColumns, <<>>)}
    ELSE LET spikes_df == SelectSeq(df.rows, LAMBDA r : r.is_spike)
         IN  IF spikes_df = <<>> THEN {Returned(RankColumns, <<>>)}
             ELSE {LET top_spikes == HeadRows([i \in 1..Len(spikes_df) |-> spikes_df[p[i]]], k)
                   IN  Returned(RankColumns,
                                [i \in 1..Len(top_spikes) |->
                                    RankRow(top_spikes[i], i, date_col, value_col,
                                            Columns(df))])
                   : p \in SortOrders(spikes_df)}

\* the records the summaries return; the note is named by its kind
Summary(method, item, n_months, top_spikes, note) ==
    [method |-> method, item |-> item, n_months |-> n_months,
     top_spikes |-> top_spikes, note |-> note]

\* "Determine if fallback was used": the note of a summary that ranked spikes
FallbackNoteLen == 24

FallbackNote(method, series) ==
    IF method = "stl" /\ Len(series) < FallbackNoteLen
    THEN "Fallback to rolling Z-score (insufficient data for STL)"
    ELSE IF method = "prophet" /\ Len(series) < FallbackNoteLen
    THEN "Fallback to rolling Z-score (insufficient data for Prophet)"
    ELSE "Anomaly detection using method"

\* the part the three summaries share: from ensure_monthly_index on
SummarizeSeries(df, item, method, k, sm_installed, pr_installed, fit) ==
    LET series == EnsureMonthlyIndex(df)
    IN  IF series = <<>> \/ Len(series) < 2
        THEN {Summary(method, item, 0, <<>>, "Insufficient data after processing")}
        ELSE LET anomaly_df == DetectAnomalies(series, method, Restrict(<<>>, {}),
                                               sm_installed, pr_installed, fit)
             IN  IF anomaly_df.raised # "none"
                 THEN {Summary(method, item, 0, <<>>, "Error processing data")}
                 ELSE IF anomaly_df.rows = <<>>
                 THEN {Summary(method, item, Len(series), <<>>, "No anomalies detected")}
                 ELSE {Summary(method, item, Len(series), t.rows,
                               FallbackNote(method, series))
                       : t \in RankSpikes(anomaly_df, "", "value", k)}

\* summarize_top_spikes_overall(path, method, k); csv is what read_csv gives
\* for the path: the table, or an error
SummarizeTopSpikesOverall(csv, method, k, sm_installed, pr_installed, fit) ==
    IF ~csv.ok THEN {Summary(method, NaN, 0, <<>>, "Error processing data")}
    ELSE IF csv.rows = <<>> \/ Len(csv.rows) < 2
    THEN {Summary(method, NaN, 0, <<>>, "Insufficient data available")}
    ELSE SummarizeSeries(csv.rows, NaN, method, k, sm_installed, pr_installed, fit)

\* summarize_top_spikes_by_drug / summarize_top_spikes_by_reaction(path, item,
\* method, k): the same code on the rows of the item
SummarizeTopSpikesByItem(csv, item, method, k, sm_installed, pr_installed, fit) ==
    IF item = "" THEN {Summary(method, NaN, 0, <<>>, "No item specified")}
    ELSE IF ~csv.ok THEN {Summary(method, item, 0, <<>>, "Error processing data")}
    ELSE IF csv.rows = <<>> THEN {Summary(method, item, 0, <<>>, "No data available")}
    ELSE LET item_df == SelectSeq(csv.rows, LAMBDA r : r.item = item)
         IN  IF item_df = <<>>
             THEN {Summary(method, item, 0, <<>>, "No data found for item")}
             ELSE SummarizeSeries(item_df, item, method, k, sm_installed,
                                  pr_installed, fit)

(***************************************************************************)
(* The monthly aggregations of src/src/analysis/aggregate.py.  An events   *)
(* table is a record of its column names and its rows; a date that cannot  *)
(* be parsed is the value Unparseable.  A result carries the messages the  *)
(* call logged.                                                            *)
(***************************************************************************)
Unparseable == NaT - 1

ToDatetimeKeep(d) == d

\* pd.to_datetime(df[date_col], errors='coerce')
ToDatetimeCoerce(d) == IF d = Unparseable THEN NaT ELSE d

Aggregated(columns, rows, messages) ==
    [raised |-> "none", columns |-> columns, rows |-> rows, log |-> messages]

\* mutant: every row counted in every month
CountRowsAll(df, ym, col, group) == Len(df)

\* the number of rows of a month (and of a group, for NaN any group)
CountRows(df, ym, col, group) ==
    Cardinality({i \in 1..Len(df) :
                    /\ MonthStart(df[i].event_date) = ym
                    /\ col # NaN => df[i][col] = group})

\* the ascending sequence of a set of timestamps
RECURSIVE Ascending(_)
Ascending(S) == IF S = {} THEN <<>> ELSE <<SetMin(S)>> \o Ascending(S \ {SetMin(S)})

\* monthly_overall(df, date_col='event_date')
MonthlyOverall(df) ==
    IF df.rows = <<>> \/ df.columns = {}
    THEN Aggregated(<<"ym", "count">>, <<>>, <<[kind |-> "warning", what |-> "empty"]>>)
    ELSE IF "event_date" \notin df.columns
    THEN Aggregated(<<"ym", "count">>, <<>>, <<[kind |-> "error", what |-> "no date column"]>>)
    ELSE LET dated == [i \in 1..Len(df.rows) |->
                          [df.rows[i] EXCEPT !.event_date = ToDatetimeCoerce(@)]]
             df_clean == SelectSeq(dated, LAMBDA r : r.event_date # NaT)
             removed == IF Len(dated) # Len(df_clean)
                        THEN <<[kind |-> "removed", count |-> Len(dated) - Len(df_clean)]>>
                        ELSE <<>>
         IN  IF df_clean = <<>>
             THEN Aggregated(<<"ym", "count">>, <<>>,
                             removed \o <<[kind |-> "warning", what |-> "no valid dates"]>>)
             ELSE LET months == Ascending({MonthStart(df_clean[i].event_date)
                                            : i \in 1..Len(df_clean)})
                  IN  Aggregated(<<"ym", "count">>,
                                 [k \in 1..Len(months) |->
                                     [ym |-> months[k],
                                      count |-> CountRows(df_clean, months[k], NaN, NaN)]],
                                 removed \o <<[kind |-> "created", months |-> Len(months)]>>)

\* the elements of a set, one after the other
RECURSIVE Listed(_)
Listed(S) == IF S = {} THEN <<>>
             ELSE LET x == CHOOSE y \in S : TRUE IN <<x>> \o Listed(S \ {x})

\* sort_values(['ym', 'count'], ascending=[True, False]): the orders it may
\* leave the groups in (groups of one month and one count in any order)
GroupOrders(groups) ==
    {p \in Permutations(1..Len(groups)) :
        \A i \in 1..(Len(groups) - 1) :
            \/ groups[p[i]].ym < groups[p[i + 1]].ym
            \/ /\ groups[p[i]].ym = groups[p[i + 1]].ym
               /\ groups[p[i]].count >= groups[p[i + 1]].count}

\* monthly_by_reaction / monthly_by_drug (df, date_col='event_date', col): the
\* same code for the two group columns; the results it may return
MonthlyByGroup(df, col) ==
    IF df.rows = <<>> \/ df.columns = {}
    THEN {Aggregated(<<"ym", col, "count">>, <<>>, <<[kind |-> "warning", what |-> "empty"]>>)}
    ELSE IF ~({"event_date", col} \subseteq df.columns)
    THEN {Aggregated(<<"ym", col, "count">>, <<>>,
                     <<[kind |-> "error", what |-> "missing columns"]>>)}
    ELSE LET dated == [i \in 1..Len(df.rows) |->
                          [df.rows[i] EXCEPT !.event_date = ToDatetimeCoerce(@)]]
             df_clean == SelectSeq(dated, LAMBDA r : r.event_date # NaT /\ r[col] # NaN)
         IN  IF df_clean = <<>>
             THEN {Aggregated(<<"ym", col, "count">>, <<>>,
                              <<[kind |-> "warning", what |-> "no valid data"]>>)}
             ELSE LET keys == {<<MonthStart(df_clean[i].event_date), df_clean[i][col]>>
                               : i \in 1..Len(df_clean)}
                      listed == Listed(keys)
                      groups == [k \in 1..Len(listed) |->
                                    [ym |-> listed[k][1],
                                     count |-> CountRows(df_clean, listed[k][1], col,
                                                         listed[k][2])]
                                    @@ (col :> listed[k][2])]
                  IN  {Aggregated(<<"ym", col, "count">>,
                                  [k \in 1..Len(groups) |-> groups[p[k]]],
                                  <<[kind |-> "created", records |-> Len(groups)]>>)
                       : p \in GroupOrders(groups)}

MonthlyByReaction(df) == MonthlyByGroup(df, "reaction_pt")

MonthlyByDrug(df) == MonthlyByGroup(df, "drug")

(***************************************************************************)
(* Inputs of the anomaly module.                                           *)
(***************************************************************************)
RawDates == {20201105, 20201130, 20210101, 20210214, NaT}
RawValues == {0, 2, 5}
RawFrames == SeqsUpTo([date : RawDates, value : RawValues], MaxRawRows)

\* the first month of every input series (January 2020)
SeriesStart == MonthStart(20200115)
SeriesValues == {10, 12, 100}

RECURSIVE MonthIndex(_)
MonthIndex(n) ==
    IF n = 0 THEN <<>>
    ELSE IF n = 1 THEN <<SeriesStart>>
    ELSE LET prev == MonthIndex(n - 1) IN Append(prev, NextMonthStart(prev[n - 1]))

\* the monthly Series with the given values, from SeriesStart on
MakeSeries(xs) ==
    LET idx == MonthIndex(Len(xs))
    IN  [i \in 1..Len(xs) |-> [index |-> idx[i], value |-> xs[i]]]

ShortSeries == {MakeSeries(xs) : xs \in SeqsUpTo(SeriesValues, MaxSeriesLen)}

Windows == 1..MaxWindow
Thresholds == {<<DefaultRollingZNum, DefaultRollingZDen>>, <<1, 2>>,
               <<DefaultStlZNum, DefaultStlZDen>>}

\* a constant series with at most one value, at a position of ks, that differs
OutlierValues(n, ks) ==
    {[i \in 1..n |-> IF i = k THEN v ELSE c] :
        k \in ks, c \in SeriesValues, v \in SeriesValues}

\* the series rolling_zscore is called on: every short one, and the ones of
\* DefaultPeriod points with one outlier
RollingSeries ==
    ShortSeries \cup {MakeSeries(xs) : xs \in OutlierValues(DefaultPeriod, 1..DefaultPeriod)}

\* the series the decomposition detectors are called on: short ones and ones
\* of one and of two default periods, with an outlier at either end or none
DetectLengths == {1, MaxSeriesLen, DefaultPeriod, 2 * DefaultPeriod}

DetectSeries ==
    {MakeSeries(xs) : xs \in UNION {OutlierValues(n, {1, n}) : n \in DetectLengths}}
    \cup {<<>>}

Periods == {2, 3, DefaultPeriod}

\* what the decomposition library does with a series of n points: it fails
\* inside, or it fits and leaves a residual
NoFit == [ok |-> FALSE, resid |-> <<>>]
ResidualAmplitudes == {-3, 0, 3}
Fits(n) ==
    {NoFit} \cup {[ok |-> TRUE, resid |-> [i \in 1..n |-> IF i = k THEN a ELSE 0]] :
                     k \in {1, n}, a \in ResidualAmplitudes}

KwargSets ==
    {NoTables} \cup {"z_thresh" :> t : t \in Thresholds}
    \cup {"window" :> w : w \in {3, DefaultWindow}}
    \cup {"period" :> p : p \in Periods}

(***************************************************************************)
(* The anomaly module, one action per public function.                     *)
(***************************************************************************)
CallEnsureMonthlyIndex ==
    /\ pc = "anomaly"
    /\ pc' = "returned"
    /\ \E df \in RawFrames :
          /\ call' = [fn |-> "ensure_monthly_index", df |-> df]
          /\ ret' = Returned(<<"value">>, EnsureMonthlyIndex(df))
    /\ UNCHANGED <<statsmodels_installed, prophet_installed>>
    /\ UNCHANGED etlData

CallRollingZscore ==
    /\ pc = "anomaly"
    /\ pc' = "returned"
    /\ \E series \in RollingSeries, window \in Windows, z_thresh \in Thresholds :
          /\ call' = [fn |-> "rolling_zscore", series |-> series,
                      window |-> window, z_thresh |-> z_thresh]
          /\ ret' = RollingZscore(series, window, z_thresh)
    /\ UNCHANGED <<statsmodels_installed, prophet_installed>>
    /\ UNCHANGED etlData

\* the library is reached only by a series the guards let through
FitsFor(series, reached) == IF reached THEN Fits(Len(series)) ELSE {NoFit}

ReachesLibrary(series, method, kwargs, sm_installed, pr_installed) ==
    IF method = "rolling_z" THEN FALSE
    ELSE IF method = "prophet"
    THEN DOMAIN kwargs \subseteq {"z_thresh"} /\ Len(series) >= ProphetMinLen /\ pr_installed
    ELSE /\ DOMAIN kwargs \subseteq {"period", "z_thresh"}
         /\ ~StlTooShort(series, Kw(kwargs, "period", DefaultPeriod))
         /\ sm_installed

CallStlSpikes ==
    /\ pc = "anomaly"
    /\ pc' = "returned"
    /\ \E series \in DetectSeries, period \in Periods, z_thresh \in Thresholds :
          \E fit \in FitsFor(series, ~StlTooShort(series, period) /\ statsmodels_installed) :
              /\ call' = [fn |-> "stl_spikes", series |-> series, period |-> period,
                          z_thresh |-> z_thresh, fit |-> fit]
              /\ ret' = StlSpikes(series, period, z_thresh, statsmodels_installed, fit)
    /\ UNCHANGED <<statsmodels_installed, prophet_installed>>
    /\ UNCHANGED etlData

CallDetectAnomalies ==
    /\ pc = "anomaly"
    /\ pc' = "returned"
    /\ \E series \in DetectSeries, method \in Methods, kwargs \in KwargSets :
          \E fit \in FitsFor(series, ReachesLibrary(series, Lower(method), kwargs,
                                                    statsmodels_installed,
                                                    prophet_installed)) :
              /\ call' = [fn |-> "detect_anomalies", series |-> series, method |-> method,
                          kwargs |-> kwargs, fit |-> fit]
              /\ ret' = DetectAnomalies(series, method, kwargs, statsmodels_installed,
                                        prophet_installed, fit)
    /\ UNCHANGED <<statsmodels_installed, prophet_installed>>
    /\ UNCHANGED etlData

(***************************************************************************)
(* build_events, step by step.  A table of df_dict is drawn when the code  *)
(* first reads it.                                                         *)
(***************************************************************************)
InitBuild ==
    /\ pc = "build_start"
    /\ df_in = NoTables
    /\ initial_demo_count = 0
    /\ events = <<>>
    /\ log = <<>>
    /\ nq = 0
    /\ quarters = <<>>
    /\ processed = <<>>
    /\ loaded = {}
    /\ qi = 0
    /\ all_events = <<>>
    /\ combined_events = <<>>
    /\ statsmodels_installed = FALSE
    /\ prophet_installed = FALSE
    /\ call = NoCall
    /\ ret = NoCall

\* DEMO or REAC is not in df_dict: the empty table is returned
BuildMissingTables ==
    /\ pc = "build_start"
    /\ \E present \in SUBSET {"DEMO", "REAC"},
          demo \in DemoTables(MaxDemo), reactions \in ReacTables(MaxReac) :
          /\ present # {"DEMO", "REAC"}
          /\ df_in' = Restrict([DEMO |-> demo, REAC |-> reactions], present)
          /\ events' = BuildEvents(df_in').events
          /\ log' = BuildEvents(df_in').log
    /\ pc' = "build_done"
    /\ UNCHANGED <<initial_demo_count, nq, quarters, processed, loaded, qi,
                   all_events, combined_events>>
    /\ UNCHANGED anomVars

BuildInnerJoin ==
    /\ pc = "build_start"
    /\ \E demo \in DemoTables(MaxDemo), reactions \in ReacTables(MaxReac) :
          \E s \in {InnerJoinStep([DEMO |-> demo, REAC |-> reactions])} :
              /\ df_in' = [DEMO |-> demo, REAC |-> reactions]
              /\ initial_demo_count' = Len(demo)
              /\ events' = s.events
              /\ log' = s.log
    /\ pc' = "build_drug"
    /\ UNCHANGED <<nq, quarters, processed, loaded, qi,
                   all_events, combined_events>>
    /\ UNCHANGED anomVars

BuildDrugStep ==
    /\ pc = "build_drug"
    /\ \E present \in BOOLEAN, drugs \in DrugTables(MaxDrug) :
          \E s \in {DrugStep(OneTable("DRUG", present, drugs), events)} :
              /\ (~present => drugs = <<>>)
              /\ df_in' = OneTable("DRUG", present, drugs)
              /\ events' = s.events
              /\ log' = log \o s.log
    /\ pc' = "build_outc"
    /\ UNCHANGED <<initial_demo_count, nq, quarters, processed, loaded, qi,
                   all_events, combined_events>>
    /\ UNCHANGED anomVars

BuildOutcStep ==
    /\ pc = "build_outc"
    /\ \E present \in BOOLEAN, outcomes \in OutcTables(MaxOutc) :
          \E s \in {OutcStep(OneTable("OUTC", present, outcomes), events)} :
              /\ (~present => outcomes = <<>>)
              /\ df_in' = OneTable("OUTC", present, outcomes)
              /\ events' = s.events
              /\ log' = log \o s.log
    /\ pc' = "build_clean"
    /\ UNCHANGED <<initial_demo_count, nq, quarters, processed, loaded, qi,
                   all_events, combined_events>>
    /\ UNCHANGED anomVars

BuildCleanStep ==
    /\ pc = "build_clean"
    /\ \E s \in {CleanStep(events, initial_demo_count)} :
          /\ events' = s.events
          /\ log' = log \o s.log
    /\ pc' = "build_done"
    /\ UNCHANGED <<df_in, initial_demo_count, nq, quarters, processed, loaded, qi,
                   all_events, combined_events>>
    /\ UNCHANGED anomVars

NextBuild ==
    \/ BuildMissingTables
    \/ BuildInnerJoin
    \/ BuildDrugStep
    \/ BuildOutcStep
    \/ BuildCleanStep

SpecBuild == InitBuild /\ [][NextBuild]_vars

(***************************************************************************)
(* process_faers_data                                                      *)
(***************************************************************************)
\* the folders below the raw data directory, in the order of their
\* lower-cased names
FolderNames == <<"faers_ascii_2023Q4", "FAERS_ASCII_2024q1", "faers_ascii_2024Q2">>

LowerOrder(name) == CHOOSE i \in 1..Len(FolderNames) : FolderNames[i] = name

\* a raw data directory: missing, or holding quarter folders and a folder
\* that is none
RawDirs ==
    {[exists |-> FALSE, entries |-> {}]}
    \cup {[exists |-> TRUE, entries |-> S \cup {"reviews"}]
          : S \in {T \in SUBSET {FolderNames[i] : i \in 1..Len(FolderNames)}
                     : Cardinality(T) <= MaxQuarters}}

\* limit_quarters: None (0 here: the code treats 0 as None) or a number
LimitChoices == {0, 1}

MatchesQuarterlyPattern(name) == \E i \in 1..Len(FolderNames) : FolderNames[i] = name

RECURSIVE SortedByLowerName(_)
SortedByLowerName(S) ==
    IF S = {} THEN <<>>
    ELSE LET first == CHOOSE x \in S : \A y \in S : LowerOrder(x) <= LowerOrder(y)
         IN  <<first>> \o SortedByLowerName(S \ {first})

\* discover_quarters(raw_dir)
DiscoverQuartersIn(raw_dir) ==
    IF ~raw_dir.exists THEN <<>>
    ELSE SortedByLowerName({e \in raw_dir.entries : MatchesQuarterlyPattern(e)})

LimitQuartersIgnored(found, limit_quarters) == found

\* process_faers_data: the N most recent folders when limit_quarters is given
LimitQuarters(found, limit_quarters) ==
    IF limit_quarters > 0 /\ limit_quarters < Len(found)
    THEN SubSeq(SortedByLowerName({found[i] : i \in 1..Len(found)}),
                Len(found) - limit_quarters + 1, Len(found))
    ELSE found

InitEtl ==
    /\ pc = "discover"
    /\ df_in = NoTables
    /\ initial_demo_count = 0
    /\ events = <<>>
    /\ log = <<>>
    /\ nq = 0
    /\ quarters = <<>>
    /\ processed = <<>>
    /\ loaded = {}
    /\ qi = 0
    /\ all_events = <<>>
    /\ combined_events = <<>>
    /\ statsmodels_installed = FALSE
    /\ prophet_installed = FALSE
    /\ \E raw_dir \in RawDirs, limit_quarters \in LimitChoices :
          call = [fn |-> "process_faers_data", raw_dir |-> raw_dir,
                  limit_quarters |-> limit_quarters]
    /\ ret = NoCall

\* discover_quarters and the limit to the most recent folders; no folder ends
\* the run with an empty table
DiscoverQuarters ==
    /\ pc = "discover"
    /\ quarters' = LimitQuarters(DiscoverQuartersIn(call.raw_dir), call.limit_quarters)
    /\ nq' = Len(quarters')
    /\ pc' = IF quarters' = <<>> THEN "done" ELSE "loop"
    /\ UNCHANGED <<df_in, initial_demo_count, events, log, processed, loaded, qi,
                   all_events, combined_events>>
    /\ UNCHANGED anomVars

\* one pass of the loop over the quarters: load_quarter_data on the tables
\* load_faers_ascii returned for the folder (a file that is missing or failed
\* to load has no entry)
ProcessQuarter ==
    /\ pc = "loop"
    /\ qi < nq
    /\ \E demo \in TableChoices("DEMO", DemoTables(QuarterRows)),
          reactions \in TableChoices("REAC", ReacTables(QuarterRows)),
          drugs \in TableChoices("DRUG", DrugTables(QuarterRows)),
          outcomes \in TableChoices("OUTC", OutcTables(QuarterRows)) :
          \E r \in {LoadQuarterData(demo @@ reactions @@ drugs @@ outcomes)} :
              /\ loaded' = DOMAIN (demo @@ reactions @@ drugs @@ outcomes)
              /\ events' = r.events
              /\ log' = r.log
              /\ all_events' = IF r.events # <<>>
                               THEN Append(all_events,
                                           SetColumn(r.events, "quarter", quarters[qi + 1]))
                               ELSE all_events
    /\ processed' = Append(processed, quarters[qi + 1])
    /\ qi' = qi + 1
    /\ UNCHANGED <<pc, df_in, initial_demo_count, nq, quarters, combined_events>>
    /\ UNCHANGED anomVars

\* after the loop: concatenate, drop the cross-quarter duplicates, sort
CombineQuarters ==
    /\ pc = "loop"
    /\ qi = nq
    /\ combined_events' = IF all_events = <<>> THEN <<>>
                          ELSE SortValues(DropDuplicates(Concat(all_events), DedupKey))
    /\ pc' = "done"
    /\ UNCHANGED <<df_in, initial_demo_count, events, log, nq, quarters, processed, loaded,
                   qi, all_events>>
    /\ UNCHANGED anomVars

NextEtl == DiscoverQuarters \/ ProcessQuarter \/ CombineQuarters

SpecEtl == InitEtl /\ [][NextEtl]_vars

\* build_events called directly, or through process_faers_data
InitPipeline == InitBuild \/ InitEtl

NextPipeline == NextBuild \/ NextEtl

SpecPipeline == InitPipeline /\ [][NextPipeline]_vars

(***************************************************************************)
(* The anomaly module as a whole.                                          *)
(***************************************************************************)
InitAnomaly ==
    /\ pc = "anomaly"
    /\ df_in = NoTables
    /\ initial_demo_count = 0
    /\ events = <<>>
    /\ log = <<>>
    /\ nq = 0
    /\ quarters = <<>>
    /\ processed = <<>>
    /\ loaded = {}
    /\ qi = 0
    /\ all_events = <<>>
    /\ combined_events = <<>>
    /\ statsmodels_installed \in BOOLEAN
    /\ prophet_installed \in BOOLEAN
    /\ call = NoCall
    /\ ret = NoCall

NextAnomaly ==
    \/ CallEnsureMonthlyIndex
    \/ CallRollingZscore
    \/ CallStlSpikes
    \/ CallDetectAnomalies

SpecAnomaly == InitAnomaly /\ [][NextAnomaly]_vars

(***************************************************************************)
(* rank_spikes and the summaries, one action per function.                 *)
(***************************************************************************)
\* the detector results rank_spikes is called on: rolling z-scores of the
\* short series, and tables without rows or without the z column
RankThresholds == {<<1, 2>>, <<DefaultRollingZNum, DefaultRollingZDen>>}
RankFrames ==
    {RollingZscore(series, 3, t) : series \in ShortSeries, t \in RankThresholds}
    \cup {Returned(<<"value", "is_spike">>, <<>>)}
TopK == {0, 1, 3}

\* the monthly tables the summaries read: a row for every month of a series,
\* or two rows of any two dates
FrameOfSeries(series) ==
    [i \in 1..Len(series) |-> [date |-> series[i].index, value |-> series[i].value,
                               item |-> "ASPIRIN"]]
\* one and two default periods with an outlier at the end of every window
RepeatedOutliers ==
    {[i \in 1..n |-> IF i % DefaultWindow = 0 THEN 100 ELSE 10]
     : n \in {DefaultPeriod, 2 * DefaultPeriod}}
SummaryFrames ==
    {FrameOfSeries(series) : series \in DetectSeries}
    \cup {FrameOfSeries(MakeSeries(xs)) : xs \in RepeatedOutliers}
    \cup {<<[date |-> d1, value |-> 5, item |-> "ASPIRIN"],
            [date |-> d2, value |-> 2, item |-> "ASPIRIN"]>> : d1, d2 \in RawDates}
OtherItemRows == {<<>>, <<[date |-> SeriesStart, value |-> 100, item |-> "IBUPROFEN"]>>}
Csvs(frames) == {[ok |-> FALSE, rows |-> <<>>]} \cup {[ok |-> TRUE, rows |-> f] : f \in frames}
Items == {"", "ASPIRIN", "IBUPROFEN"}
SummaryMethods == {"stl", "rolling_z", "prophet"}
SummaryKs == {-1, 0, 1, 3}

CallRankSpikes ==
    /\ pc = "anomaly"
    /\ pc' = "returned"
    /\ \E df \in RankFrames, k \in TopK :
          /\ call' = [fn |-> "rank_spikes", df |-> df, k |-> k]
          /\ ret' \in RankSpikes(df, "", "value", k)
    /\ UNCHANGED <<statsmodels_installed, prophet_installed>>
    /\ UNCHANGED etlData

\* the library a method needs is reached by the summaries as by detect_anomalies
SummaryFits(rows, method, sm_installed, pr_installed) ==
    LET series == EnsureMonthlyIndex(rows)
    IN  FitsFor(series, Len(series) >= 2
                        /\ ReachesLibrary(series, method, NoTables, sm_installed,
                                          pr_installed))

CallSummarizeOverall ==
    /\ pc = "anomaly"
    /\ pc' = "returned"
    /\ \E csv \in Csvs(SummaryFrames), method \in SummaryMethods, k \in SummaryKs :
          \E fit \in SummaryFits(csv.rows, method, statsmodels_installed,
                                 prophet_installed) :
              /\ call' = [fn |-> "summarize_top_spikes_overall", csv |-> csv,
                          item |-> NaN, method |-> method, k |-> k, fit |-> fit]
              /\ ret' \in SummarizeTopSpikesOverall(csv, method, k, statsmodels_installed,
                                                   prophet_installed, fit)
    /\ UNCHANGED <<statsmodels_installed, prophet_installed>>
    /\ UNCHANGED etlData

SummarizeByItem(fn) ==
    /\ pc = "anomaly"
    /\ pc' = "returned"
    /\ \E frame \in SummaryFrames, other \in OtherItemRows, item \in Items,
          method \in SummaryMethods, k \in SummaryKs :
          \E csv \in Csvs({frame \o other}) :
          \E fit \in SummaryFits(SelectSeq(csv.rows, LAMBDA r : r.item = item), method,
                                 statsmodels_installed, prophet_installed) :
              /\ call' = [fn |-> fn, csv |-> csv, item |-> item, method |-> method,
                          k |-> k, fit |-> fit]
              /\ ret' \in SummarizeTopSpikesByItem(csv, item, method, k,
                                                  statsmodels_installed,
                                                  prophet_installed, fit)
    /\ UNCHANGED <<statsmodels_installed, prophet_installed>>
    /\ UNCHANGED etlData

CallSummarizeByDrug == SummarizeByItem("summarize_top_spikes_by_drug")

CallSummarizeByReaction == SummarizeByItem("summarize_top_spikes_by_reaction")

NextInsights ==
    \/ CallRankSpikes
    \/ CallSummarizeOverall
    \/ CallSummarizeByDrug
    \/ CallSummarizeByReaction

SpecInsights == InitAnomaly /\ [][NextInsights]_vars

(***************************************************************************)
(* The mandatory join and its key overlap analysis on tables of up to      *)
(* MaxOverlapRows rows over four case ids, one call a behaviour.           *)
(***************************************************************************)
MaxOverlapRows == 3
OverlapKeys == {"A", "B", "C", "X", NaN}
LeftKeySeqs == SeqsUpTo(OverlapKeys \ {"X"}, MaxOverlapRows)
RightKeySeqs == SeqsUpTo(OverlapKeys \ {"C"}, MaxOverlapRows)
DemoOfKeys(keys) ==
    [i \in 1..Len(keys) |-> [case_id |-> keys[i], event_date |-> 20200115]]
ReacOfKeys(keys) ==
    [i \in 1..Len(keys) |-> [case_id |-> keys[i], reaction_pt |-> "NAUSEA"]]

\* a function called on its own, outside a run of the pipeline
InitCall ==
    /\ pc = "call"
    /\ df_in = NoTables
    /\ initial_demo_count = 0
    /\ events = <<>>
    /\ log = <<>>
    /\ nq = 0
    /\ quarters = <<>>
    /\ processed = <<>>
    /\ loaded = {}
    /\ qi = 0
    /\ all_events = <<>>
    /\ combined_events = <<>>
    /\ statsmodels_installed = TRUE
    /\ prophet_installed = TRUE
    /\ call = NoCall
    /\ ret = NoCall

\* _analyze_key_overlap(left_df, right_df, 'case_id', left_name, right_name)
CallAnalyzeKeyOverlap ==
    /\ pc = "call"
    /\ pc' = "returned"
    /\ \E left_keys \in LeftKeySeqs, right_keys \in RightKeySeqs :
          /\ call' = [fn |-> "_analyze_key_overlap", left_df |-> DemoOfKeys(left_keys),
                      right_df |-> ReacOfKeys(right_keys)]
          /\ ret' = AnalyzeKeyOverlap(DemoOfKeys(left_keys), ReacOfKeys(right_keys),
                                      "DEMO", "REAC")
    /\ UNCHANGED <<statsmodels_installed, prophet_installed>>
    /\ UNCHANGED etlData

\* build_events up to the mandatory join: the overlap analysis, the inner
\* join and its statistics
CallInnerJoin ==
    /\ pc = "call"
    /\ pc' = "returned"
    /\ \E left_keys \in LeftKeySeqs, right_keys \in RightKeySeqs :
          /\ call' = [fn |-> "build_events", DEMO |-> DemoOfKeys(left_keys),
                      REAC |-> ReacOfKeys(right_keys)]
          /\ ret' = InnerJoinStep(("DEMO" :> DemoOfKeys(left_keys))
                                  @@ ("REAC" :> ReacOfKeys(right_keys)))
    /\ UNCHANGED <<statsmodels_installed, prophet_installed>>
    /\ UNCHANGED etlData

NextOverlap == CallAnalyzeKeyOverlap \/ CallInnerJoin

SpecOverlap == InitCall /\ [][NextOverlap]_vars

(***************************************************************************)
(* The column normalisation of normalize_faers_schema on raw tables.  A    *)
(* raw table is a record of its column names and its rows, a row a         *)
(* function from the column names to cells, a cell a string written as     *)
(* the sequence of its characters, or the missing cell.  read_csv turns    *)
(* the empty field into the missing cell, so no cell of a raw table is     *)
(* the empty string.                                                       *)
(***************************************************************************)
MissingCell == <<NaN>>

IsSpace(c) == c \in {" ", "\t"}

UpperChar(c) ==
    CASE c = "a" -> "A" [] c = "b" -> "B" [] c = "n" -> "N" [] c = "y" -> "Y" [] OTHER -> c

\* Series.astype(str): the missing cell becomes the string nan
AsTypeStr(cell) == IF cell = MissingCell THEN <<"n", "a", "n">> ELSE cell

RECURSIVE LStrip(_)
LStrip(str) == IF str # <<>> /\ IsSpace(Head(str)) THEN LStrip(Tail(str)) ELSE str

RECURSIVE RStrip(_)
RStrip(str) ==
    IF str # <<>> /\ IsSpace(str[Len(str)]) THEN RStrip(SubSeq(str, 1, Len(str) - 1))
    ELSE str

\* Series.str.strip(), Series.str.upper(), Series.str.replace(r'\s+', ' '):
\* each leaves the missing cell missing
StrStrip(cell) == IF cell = MissingCell THEN cell ELSE RStrip(LStrip(cell))

StrUpper(cell) ==
    IF cell = MissingCell THEN cell ELSE [i \in 1..Len(cell) |-> UpperChar(cell[i])]

RECURSIVE CollapseRuns(_)
CollapseRuns(str) ==
    IF str = <<>> THEN <<>>
    ELSE IF IsSpace(Head(str)) THEN <<" ">> \o CollapseRuns(LStrip(str))
    ELSE <<Head(str)>> \o CollapseRuns(Tail(str))

StrReplaceSpaces(cell) == IF cell = MissingCell THEN cell ELSE CollapseRuns(cell)

\* COLUMN_MAPPINGS of config.py
ColumnMappings ==
    [case_id |-> <<"PRIMARYID", "CASEID", "primaryid", "caseid">>,
     drug |-> <<"DRUGNAME", "MEDICINALPRODUCT", "drugname", "medicinalproduct">>,
     reaction_pt |-> <<"PT", "REACTIONMEDDRAPT", "pt", "reactionmeddrapt">>,
     country |-> <<"OCCUR_COUNTRY", "COUNTRY", "occur_country", "country">>,
     serious |-> <<"SERIOUS", "SERIOUSNESS", "serious", "seriousness">>]

\* mutant: the last alias present wins
NormalizeColumnLastAlias(df, target_col, source_cols) ==
    LET present == SelectSeq(source_cols, LAMBDA col : col \in df.columns)
    IN  IF present # <<>>
        THEN [i \in 1..Len(df.rows) |-> StrStrip(AsTypeStr(df.rows[i][present[Len(present)]]))]
        ELSE [i \in 1..Len(df.rows) |-> MissingCell]

\* _normalize_column(df, target_col, source_cols): the column it returns
NormalizeColumn(df, target_col, source_cols) ==
    LET present == SelectSeq(source_cols, LAMBDA col : col \in df.columns)
    IN  IF present # <<>>
        THEN [i \in 1..Len(df.rows) |-> StrStrip(AsTypeStr(df.rows[i][Head(present)]))]
        ELSE [i \in 1..Len(df.rows) |-> MissingCell]

\* raw tables for _normalize_column: any of the aliases of case_id and a
\* column whose name differs from an alias in case only; the cell of a
\* column names the column and the row
MaxNormRows == 2

CaseIdColumns == <<"PRIMARYID", "CASEID", "primaryid", "caseid", "Primaryid">>

ColumnDigit(col) == ToString(CHOOSE k \in 1..Len(CaseIdColumns) : CaseIdColumns[k] = col)

CellOf(col, i, variant) ==
    LET plain == <<ColumnDigit(col), IF i = 1 THEN "a" ELSE "b">>
    IN  CASE variant = "plain" -> plain
          [] variant = "padded" -> <<" ">> \o plain \o <<"\t", " ">>
          [] variant = "missing" -> IF i = 1 THEN MissingCell ELSE plain

AliasTables ==
    {[columns |-> cols,
      rows |-> [i \in 1..n |-> [col \in cols |-> CellOf(col, i, variant)]]]
     : cols \in SUBSET {CaseIdColumns[k] : k \in 1..Len(CaseIdColumns)},
       n \in 0..MaxNormRows,
       variant \in {"plain", "padded", "missing"}}

CallNormalizeColumn ==
    /\ pc = "call"
    /\ pc' = "returned"
    /\ \E df \in AliasTables :
          /\ call' = [fn |-> "_normalize_column", df |-> df, target_col |-> "case_id",
                      source_cols |-> ColumnMappings.case_id]
          /\ ret' = [raised |-> "none",
                     column |-> NormalizeColumn(df, "case_id", ColumnMappings.case_id)]
    /\ UNCHANGED <<statsmodels_installed, prophet_installed>>
    /\ UNCHANGED etlData

\* SERIOUS_MAPPING of config.py followed by fillna(False): a value outside
\* the mapping, the missing value included, becomes False
SeriousMapping(cell) ==
    IF cell \in {<<"1">>, <<"Y">>, <<"Y", "E", "S">>, <<"T", "R", "U", "E">>}
    THEN "True" ELSE "False"

\* the column of a table with one more column, or with a column replaced
WithColumn(df, name, column) ==
    [columns |-> df.columns \cup {name},
     rows |-> [i \in 1..Len(df.rows) |->
                  [col \in df.columns \cup {name} |->
                      IF col = name THEN column[i] ELSE df.rows[i][col]]]]

NormalizedText(df, target_col) ==
    NormalizeColumn(df, target_col, ColumnMappings[target_col])

\* the one text column a table has besides case_id
TextColumn(file_type) ==
    CASE file_type = "DEMO" -> "country"
      [] file_type = "REAC" -> "reaction_pt"
      [] file_type = "DRUG" -> "drug"
      [] file_type = "OUTC" -> "serious"

\* the normalisation without the collapse of white space inside drug names
NormalizeTableUpperStrip(file_type, df) ==
    LET target == TextColumn(file_type)
        text == NormalizedText(df, target)
        value(cell) == IF file_type = "OUTC" THEN SeriousMapping(StrUpper(cell))
                       ELSE StrStrip(StrUpper(cell))
    IN  WithColumn(WithColumn(df, "case_id", NormalizedText(df, "case_id")),
                   target, [i \in 1..Len(text) |-> value(text[i])])

\* one branch of normalize_faers_schema: case_id and the text column of the
\* file type (sex, age and event_date of DEMO are left as they are read)
NormalizeTable(file_type, df) ==
    LET target == TextColumn(file_type)
        text == NormalizedText(df, target)
        value(cell) ==
            CASE file_type \in {"DEMO", "REAC"} -> StrStrip(StrUpper(cell))
              [] file_type = "DRUG" -> StrReplaceSpaces(StrStrip(StrUpper(cell)))
              [] file_type = "OUTC" -> SeriousMapping(StrUpper(cell))
    IN  WithColumn(WithColumn(df, "case_id", NormalizedText(df, "case_id")),
                   target, [i \in 1..Len(text) |-> value(text[i])])

\* normalize_faers_schema on raw tables: an empty table is left out of the
\* result, the others get their normalised columns
NormalizeRawSchema(df_dict) ==
    [file_type \in {ft \in DOMAIN df_dict : df_dict[ft].rows # <<>>} |->
        NormalizeTable(file_type, df_dict[file_type])]

TextCells ==
    {<<"a">>, <<" ", "a", "B", " ">>, <<"a", " ", " ", "b">>, <<"a", "\t", "b">>,
     <<"a", " ", "b">>, <<"y">>, <<"1">>, MissingCell}

\* raw tables of a file type: the case id under the alias primaryid, the
\* text under the first alias, under the last alias or under no alias
TextTables(file_type) ==
    LET aliases == ColumnMappings[TextColumn(file_type)]
    IN  {[columns |-> {"primaryid", name},
          rows |-> [i \in 1..Len(cells) |->
                       [col \in {"primaryid", name} |->
                           IF col = name THEN cells[i] ELSE <<ToString(i)>>]]]
         : name \in {aliases[1], aliases[Len(aliases)], "other"},
           cells \in SeqsUpTo(TextCells, MaxNormRows)}

CallNormalizeFaersSchema ==
    /\ pc = "call"
    /\ pc' = "returned"
    /\ \E file_type \in {"DEMO", "REAC", "DRUG", "OUTC"} :
       \E df \in TextTables(file_type) :
          /\ call' = [fn |-> "normalize_faers_schema", file_type |-> file_type, df |-> df]
          /\ ret' = [raised |-> "none",
                     normalized |-> NormalizeRawSchema(file_type :> df)]
    /\ UNCHANGED <<statsmodels_installed, prophet_installed>>
    /\ UNCHANGED etlData

NextNormalize == CallNormalizeColumn \/ CallNormalizeFaersSchema

SpecNormalize == InitCall /\ [][NextNormalize]_vars

(***************************************************************************)
(* The join diagnostics on larger counts: _log_join_stats called with      *)
(* counts up to MaxJoinRows, and the mandatory join of build_events on     *)
(* tables of up to five case ids.                                          *)
(***************************************************************************)
MaxJoinRows == 10

WideKeys == <<"A", "B", "C", "D", "E">>

KeysInOrder(S) == SelectSeq(WideKeys, LAMBDA k : k \in S)

WideKeySeqs(tails) ==
    {KeysInOrder(S) \o tail : S \in SUBSET {WideKeys[i] : i \in 1..Len(WideKeys)},
                              tail \in tails}

CallLogJoinStats ==
    /\ pc = "call"
    /\ pc' = "returned"
    /\ \E before_count \in 0..MaxJoinRows, after_count \in 0..MaxJoinRows,
          join_method \in {"inner", "left"} :
          /\ call' = [fn |-> "_log_join_stats", before_count |-> before_count,
                      after_count |-> after_count, join_method |-> join_method]
          /\ ret' = LogJoinStats(before_count, after_count, "DEMO with REAC", "REAC",
                                 join_method)
    /\ UNCHANGED <<statsmodels_installed, prophet_installed>>
    /\ UNCHANGED etlData

\* build_events up to the mandatory join, DEMO with or without a row of
\* missing case_id, REAC with or without a second row of case A or a row of
\* missing case_id
CallInnerJoinWide ==
    /\ pc = "call"
    /\ pc' = "returned"
    /\ \E left_keys \in WideKeySeqs({<<>>, <<NaN>>}),
          right_keys \in WideKeySeqs({<<>>, <<"A">>, <<NaN>>}) :
          /\ call' = [fn |-> "build_events", DEMO |-> DemoOfKeys(left_keys),
                      REAC |-> ReacOfKeys(right_keys)]
          /\ ret' = InnerJoinStep(("DEMO" :> DemoOfKeys(left_keys))
                                  @@ ("REAC" :> ReacOfKeys(right_keys)))
    /\ UNCHANGED <<statsmodels_installed, prophet_installed>>
    /\ UNCHANGED etlData

NextDiagnostics == CallLogJoinStats \/ CallInnerJoinWide

SpecDiagnostics == InitCall /\ [][NextDiagnostics]_vars

(***************************************************************************)
(* load_faers_ascii and load_quarter_data on the files of one quarter      *)
(* folder, one call per behaviour.  A file is missing or present; a        *)
(* present file is larger than max_file_size_mb or not, its bytes are      *)
(* valid UTF-8 or not (in the header line, or only below it), it is well   *)
(* formed or not, and it holds rows, only rows of empty fields, or only    *)
(* the header.  THER and INDI are read like the others and used by no      *)
(* later step; they are left out.                                          *)
(***************************************************************************)
FileTypes == {"DEMO", "REAC", "DRUG", "OUTC"}

BlankRow(t) ==
    CASE t = "DEMO" -> [case_id |-> NaN, event_date |-> NaT]
      [] t = "REAC" -> [case_id |-> NaN, reaction_pt |-> NaN]
      [] t = "DRUG" -> [case_id |-> NaN, drug |-> NaN]
      [] t = "OUTC" -> [case_id |-> NaN, serious |-> "False"]

DataRow(t) ==
    CASE t = "DEMO" -> [case_id |-> "A", event_date |-> 20200115]
      [] t = "REAC" -> [case_id |-> "A", reaction_pt |-> "NAUSEA"]
      [] t = "DRUG" -> [case_id |-> "A", drug |-> "ASPIRIN"]
      [] t = "OUTC" -> [case_id |-> "A", serious |-> "True"]

MissingFile == [present |-> FALSE, large |-> FALSE, bytes |-> "utf-8",
                well_formed |-> TRUE, content |-> "header_only"]

Files ==
    {MissingFile}
    \cup [present : {TRUE}, large : BOOLEAN, bytes : {"utf-8"}, well_formed : {TRUE},
          content : {"rows", "blank_rows", "header_only"}]
    \cup [present : {TRUE}, large : BOOLEAN, bytes : {"invalid_in_header", "invalid_in_body"},
          well_formed : {TRUE}, content : {"rows"}]
    \cup [present : {TRUE}, large : BOOLEAN, bytes : {"utf-8"}, well_formed : {FALSE},
          content : {"rows"}]

Folders == [FileTypes -> Files]

FileRows(t, file) ==
    CASE file.content = "rows" -> <<DataRow(t)>>
      [] file.content = "blank_rows" -> <<BlankRow(t)>>
      [] file.content = "header_only" -> <<>>

Read(rows) == [raised |-> "none", rows |-> rows]

\* pd.read_csv(file_path, ..., encoding='utf-8') of the whole file
ReadCsvUtf8(t, file) ==
    IF ~file.well_formed THEN Raised("ParserError")
    ELSE IF file.bytes # "utf-8" THEN Raised("UnicodeDecodeError")
    ELSE Read(FileRows(t, file))

\* pd.read_csv(file_path, ..., encoding='latin-1', errors='replace'):
\* read_csv has no keyword argument errors
ReadCsvLatin1ErrorsReplace(t, file) == Raised("TypeError")

\* df[col].nunique() / len(df) for the object columns of the table
MemoryOptimization(read) ==
    IF read.rows = <<>> THEN Raised("ZeroDivisionError") ELSE read

\* the single-shot read of load_faers_ascii
ReadSingleShot(t, file) ==
    LET first == ReadCsvUtf8(t, file)
        df == IF first.raised = "UnicodeDecodeError"
              THEN ReadCsvLatin1ErrorsReplace(t, file)
              ELSE first
    IN  IF df.raised # "none" THEN df ELSE MemoryOptimization(df)

\* _read_large_file_chunked(file_path, file_type)
ReadLargeFileChunked(t, file) ==
    IF ~file.well_formed THEN Raised("ParserError")                \* header read
    ELSE IF file.bytes = "invalid_in_header"
    THEN ReadCsvLatin1ErrorsReplace(t, file)                       \* reader, second try
    ELSE IF file.bytes = "invalid_in_body"
    THEN Raised("UnicodeDecodeError")                              \* the loop over chunks
    ELSE LET chunks == SelectSeq(FileRows(t, file), LAMBDA r : r # BlankRow(t))
         IN  Read(chunks)

\* one pass of the loop of load_faers_ascii
LoadFile(t, file) ==
    IF ~file.present THEN [outcome |-> "missing", rows |-> <<>>]
    ELSE LET df == IF file.large THEN ReadLargeFileChunked(t, file)
                   ELSE ReadSingleShot(t, file)
         IN  IF df.raised # "none" THEN [outcome |-> df.raised, rows |-> <<>>]
             ELSE [outcome |-> "loaded", rows |-> df.rows]

\* load_faers_ascii(folder): the tables loaded and what became of each file
LoadFaersAscii(folder) ==
    LET one == [t \in FileTypes |-> LoadFile(t, folder[t])]
    IN  [raised |-> "none",
         dataframes |-> [t \in {u \in FileTypes : one[u].outcome = "loaded"} |-> one[t].rows],
         outcome |-> [t \in FileTypes |-> one[t].outcome]]

CallLoadFaersAscii ==
    /\ pc = "call"
    /\ \E folder \in Folders :
          /\ call' = [fn |-> "load_faers_ascii", folder |-> folder]
          /\ ret' = LoadFaersAscii(folder)
    /\ pc' = "returned"
    /\ UNCHANGED <<statsmodels_installed, prophet_installed>>
    /\ UNCHANGED etlData

\* load_quarter_data(quarter_folder)
CallLoadQuarterData ==
    /\ pc = "call"
    /\ \E folder \in Folders :
          /\ call' = [fn |-> "load_quarter_data", folder |-> folder]
          /\ ret' = [raised |-> "none", loaded |-> DOMAIN LoadFaersAscii(folder).dataframes]
                    @@ LoadQuarterData(LoadFaersAscii(folder).dataframes)
    /\ pc' = "returned"
    /\ UNCHANGED <<statsmodels_installed, prophet_installed>>
    /\ UNCHANGED etlData

NextLoad == CallLoadFaersAscii \/ CallLoadQuarterData

SpecLoad == InitCall /\ [][NextLoad]_vars

\* process_faers_data over the folders, and the loading of one folder
InitIngest == InitEtl \/ InitCall

NextIngest == NextEtl \/ NextLoad

SpecIngest == InitIngest /\ [][NextIngest]_vars

(***************************************************************************)
(* The monthly aggregations, one action per function: each behaviour makes *)
(* one call on an events table of at most MaxEventRows rows.               *)
(***************************************************************************)
MaxEventRows == 3

AggDates == {20201105, 20201130, 20210214, NaT, Unparseable}

AggGroups(col) == IF col = "drug" THEN {"ASPIRIN", "IBUPROFEN", NaN}
                  ELSE {"NAUSEA", "HEADACHE", NaN}

OverallTables ==
    {[columns |-> cols, rows |-> rows] :
        cols \in {{"event_date"}, {"case_id"}},
        rows \in SeqsUpTo([event_date : AggDates], MaxEventRows)}

GroupedTables(col) ==
    {[columns |-> cols, rows |-> rows] :
        cols \in {{"event_date", col}, {"event_date"}},
        rows \in SeqsUpTo({[event_date |-> d] @@ (col :> g)
                            : d \in AggDates, g \in AggGroups(col)}, MaxEventRows)}

CallMonthlyOverall ==
    /\ pc = "call"
    /\ \E df \in OverallTables :
          /\ call' = [fn |-> "monthly_overall", df |-> df]
          /\ ret' = MonthlyOverall(df)
    /\ pc' = "returned"
    /\ UNCHANGED <<statsmodels_installed, prophet_installed>>
    /\ UNCHANGED etlData

CallMonthlyByReaction ==
    /\ pc = "call"
    /\ \E df \in GroupedTables("reaction_pt") :
          /\ call' = [fn |-> "monthly_by_reaction", df |-> df]
          /\ ret' \in MonthlyByReaction(df)
    /\ pc' = "returned"
    /\ UNCHANGED <<statsmodels_installed, prophet_installed>>
    /\ UNCHANGED etlData

CallMonthlyByDrug ==
    /\ pc = "call"
    /\ \E df \in GroupedTables("drug") :
          /\ call' = [fn |-> "monthly_by_drug", df |-> df]
          /\ ret' \in MonthlyByDrug(df)
    /\ pc' = "returned"
    /\ UNCHANGED <<statsmodels_installed, prophet_installed>>
    /\ UNCHANGED etlData

NextAggregate == CallMonthlyOverall \/ CallMonthlyByReaction \/ CallMonthlyByDrug

SpecAggregate == InitCall /\ [][NextAggregate]_vars

(***************************************************************************)
(* The aggregations of the events of one quarter: build_events, then        *)
(* create_all_aggregations on the table it returned.                       *)
(***************************************************************************)
EventColumns == {"event_date", "case_id", "drug", "reaction_pt", "serious"}

\* create_all_aggregations(events_df): the three tables it may return
CreateAllAggregations(events_df) ==
    {[overall |-> MonthlyOverall(events_df), by_reaction |-> r, by_drug |-> d]
     : r \in MonthlyByReaction(events_df), d \in MonthlyByDrug(events_df)}

\* the tables of a quarter: DEMO and REAC, and DRUG and OUTC absent or with
\* one row
QuarterTables ==
    {[DEMO |-> demo, REAC |-> reactions] @@ drugs @@ outcomes
     : demo \in DemoTables(MaxDemo), reactions \in ReacTables(MaxReac),
       drugs \in TableChoices("DRUG", DrugTables(1)),
       outcomes \in TableChoices("OUTC", OutcTables(1))}

CallCreateAllAggregations ==
    /\ pc = "call"
    /\ pc' = "returned"
    /\ \E df_dict \in QuarterTables :
          LET events_df == [columns |-> EventColumns, rows |-> BuildEvents(df_dict).events]
          IN  /\ call' = [fn |-> "create_all_aggregations", df_dict |-> df_dict,
                          events_df |-> events_df]
              /\ \E tables \in CreateAllAggregations(events_df) :
                    ret' = [raised |-> "none"] @@ tables
    /\ UNCHANGED <<statsmodels_installed, prophet_installed>>
    /\ UNCHANGED etlData

SpecEnrich == InitCall /\ [][CallCreateAllAggregations]_vars

(***************************************************************************)
(* Properties of the join pipeline.                                        *)
(***************************************************************************)
KeysUnique(df) ==
    \A i, j \in 1..Len(df) : i # j => df[i].case_id # df[j].case_id

KeyPairs(left, right) ==
    {p \in (1..Len(left)) \X (1..Len(right)) : left[p[1]].case_id = right[p[2]].case_id}

\* the state right after the mandatory join: df_in holds DEMO and REAC
InnerJoinActed == pc = "build_drug"

\* C1 as stated: the mandatory DEMO x REAC inner join never yields more rows
\* than DEMO has, whatever the number of REAC rows per case_id.
C1_InnerJoinNeverGrows ==
    InnerJoinActed => Len(events) <= Len(df_in["DEMO"])

\* C1 as amended: the inner join's diagnostic carries the DEMO row count as
\* before-count and the joined row count as after-count; the after-count is
\* the number of (DEMO row, REAC row) pairs of equal case_id, and it is at
\* most the before-count whenever no case_id occurs in two REAC rows.
C1_InnerJoinCount ==
    InnerJoinActed =>
        /\ log[2].kind = "join" /\ log[2].join_method = "inner"
        /\ log[2].before = Len(df_in["DEMO"])
        /\ log[2].after = Len(events)
        /\ Len(events) = Cardinality(KeyPairs(df_in["DEMO"], df_in["REAC"]))
        /\ (KeysUnique(df_in["REAC"]) => Len(events) <= Len(df_in["DEMO"]))

\* C1 witness: no case_id twice in REAC, two DEMO rows of which one has a
\* reaction: one row is lost
C1_Witness ==
    /\ InnerJoinActed
    /\ KeysUnique(df_in["REAC"])
    /\ Len(df_in["DEMO"]) = 2
    /\ Len(events) = 1
    /\ log[2].rows_lost = 1

\* every row of the left table is still there after the join
LeftRowsKept(left, joined) ==
    \A i \in 1..Len(left) : \E j \in 1..Len(joined) :
        \A c \in DOMAIN left[i] : joined[j][c] = left[i][c]

LastJoinDiagnostic(l, before_count, after_count) ==
    /\ l # <<>>
    /\ l[Len(l)].kind = "join"
    /\ l[Len(l)].join_method = "left"
    /\ l[Len(l)].before = before_count
    /\ l[Len(l)].after = after_count

DrugJoinStep ==
    /\ pc = "build_drug" /\ pc' = "build_outc"
    /\ "DRUG" \in DOMAIN df_in' /\ df_in'["DRUG"] # <<>>

OutcJoinStep ==
    /\ pc = "build_outc" /\ pc' = "build_clean"
    /\ "OUTC" \in DOMAIN df_in' /\ df_in'["OUTC"] # <<>>

\* C2: a left join of build_events (events with DRUG, events with the
\* per-case OUTC) never ends with fewer rows than it began with, ends with
\* exactly as many when no case_id occurs twice in the joined-in table (always
\* so for the per-case outcomes), and keeps every left row.
C2_LeftJoinsKeepRows ==
    [][ /\ DrugJoinStep =>
            /\ Len(events') >= Len(events)
            /\ (KeysUnique(df_in'["DRUG"]) => Len(events') = Len(events))
            /\ LeftRowsKept(events, events')
            /\ LastJoinDiagnostic(log', Len(events), Len(events'))
        /\ OutcJoinStep =>
            /\ Len(events') = Len(events)
            /\ LeftRowsKept(events, events')
            /\ LastJoinDiagnostic(log', Len(events), Len(events')) ]_vars

\* C2 witness: the DRUG join added rows (a case with two drug rows) and kept
\* an event whose case has no drug row
C2_Witness ==
    /\ pc = "build_outc"
    /\ "DRUG" \in DOMAIN df_in
    /\ LastJoinDiagnostic(log, Len(events) - 1, Len(events))
    /\ \E i \in 1..Len(events) : events[i].drug = NaN /\ events[i].case_id # NaN

NoDuplicateTuples(df) ==
    \A i, j \in 1..Len(df) :
        i # j => <<df[i].case_id, df[i].drug, df[i].reaction_pt, df[i].event_date>>
                 # <<df[j].case_id, df[j].drug, df[j].reaction_pt, df[j].event_date>>

\* C3: the events build_events returns for a period, and the concatenated
\* events process_faers_data returns, hold no two rows with the same
\* (case_id, drug, reaction_pt, event_date).
C3_NoDuplicateEvents ==
    /\ pc \in {"build_done", "loop", "done"} => NoDuplicateTuples(events)
    /\ pc = "done" => NoDuplicateTuples(combined_events)

\* C3 witness: two quarters delivered the same event and the result holds it once
C3_Witness ==
    /\ pc = "done"
    /\ Len(all_events) = 2
    /\ combined_events # <<>>
    /\ Len(combined_events) < Len(Concat(all_events))

(***************************************************************************)
(* Properties of the anomaly module.                                       *)
(***************************************************************************)
\* months since year 0 of a timestamp
MonthOrdinal(ts) == (ts \div 10000) * 12 + ((ts \div 100) % 100)

RECURSIVE SumOfRows(_, _)
SumOfRows(df, rows) ==
    IF rows = {} THEN 0
    ELSE LET i == CHOOSE i \in rows : TRUE
         IN  df[i].value + SumOfRows(df, rows \ {i})

\* C4: for a non-empty input, ensure_monthly_index returns one entry for
\* every month from the first to the last observed month, in ascending order
\* and without a gap, an observed month holding the sum of its rows and an
\* unobserved one 0.
C4_MonthlyIndexContinuous ==
    (call.fn = "ensure_monthly_index" /\ call.df # <<>>) =>
        LET df == call.df
            out == ret.rows
            dated == {i \in 1..Len(df) : df[i].date # NaT}
            ords == {MonthOrdinal(df[i].date) : i \in dated}
            month(k) == SetMin(ords) + k - 1
        IN  /\ ret.raised = "none"
            /\ dated = {} => out = <<>>
            /\ dated # {} =>
                /\ Len(out) = SetMax(ords) - SetMin(ords) + 1
                /\ \A k \in 1..Len(out) :
                      /\ out[k].index % 100 = 1
                      /\ MonthOrdinal(out[k].index) = month(k)
                      /\ out[k].value =
                           SumOfRows(df, {i \in dated : MonthOrdinal(df[i].date) = month(k)})

\* C4 witness: two rows of November 2020 and one of February 2021 give four
\* months, the first the sum, the two between filled with 0
C4_Witness ==
    /\ call.fn = "ensure_monthly_index"
    /\ Len(ret.rows) = 4
    /\ ret.rows[1].value = 7
    /\ ret.rows[2].value = 0
    /\ ret.rows[3].value = 0
    /\ ret.rows[4].index = 20210201

IsConstant(series) ==
    \A i, j \in 1..Len(series) : series[i].value = series[j].value

\* C5: on a constant series of at least window points rolling_zscore returns
\* a row for every point with z = 0 and is_spike false, for every window >= 1
\* and threshold > 0.
C5_ConstantSeriesNoSpike ==
    (/\ call.fn = "rolling_zscore"
     /\ call.series # <<>>
     /\ IsConstant(call.series)
     /\ Len(call.series) >= call.window) =>
        /\ ret.raised = "none"
        /\ Len(ret.rows) = Len(call.series)
        /\ \A i \in 1..Len(ret.rows) :
              /\ ret.rows[i].z_sign = 0
              /\ ret.rows[i].z2[1] = 0
              /\ ~ret.rows[i].is_spike

\* C5 witness: a constant series exactly as long as the window
C5_Witness ==
    /\ call.fn = "rolling_zscore"
    /\ IsConstant(call.series)
    /\ call.window > 1
    /\ Len(call.series) = call.window
    /\ Len(ret.rows) = call.window

\* all values equal but the one at position k
SingleOutlierAt(series, k) ==
    /\ k \in 1..Len(series)
    /\ \E c \in {series[i].value : i \in 1..Len(series)} :
          /\ series[k].value # c
          /\ \A i \in 1..Len(series) : i # k => series[i].value = c

\* C6: with window 6 and threshold 2.0, a series of at least 6 points that is
\* constant but for one value at an index >= 5 (counted from 0) has that
\* index flagged and no other.
C6_SingleOutlierFlagged ==
    (/\ call.fn = "rolling_zscore"
     /\ call.window = DefaultWindow
     /\ call.z_thresh = <<DefaultRollingZNum, DefaultRollingZDen>>) =>
        \A k \in 1..Len(call.series) :
            (k - 1 >= 5 /\ SingleOutlierAt(call.series, k)) =>
                /\ Len(ret.rows) = Len(call.series)
                /\ \A i \in 1..Len(ret.rows) : ret.rows[i].is_spike <=> i = k

\* C6 witness: the series [10,10,10,10,10,100,10,10,10,10,10,10]
C6_Witness ==
    /\ call.fn = "rolling_zscore"
    /\ call.window = DefaultWindow
    /\ call.z_thresh = <<DefaultRollingZNum, DefaultRollingZDen>>
    /\ Values(call.series) = <<10, 10, 10, 10, 10, 100, 10, 10, 10, 10, 10, 10>>
    /\ {i \in 1..Len(ret.rows) : ret.rows[i].is_spike} = {6}

\* C7 as stated: detect_anomalies(series, method="stl") on a series of 12
\* points returns a result of the shape detect_anomalies(series,
\* method="rolling_z") returns for it (the rolling columns, one row a month).
C7_StlFallsBackOnShortSeries ==
    (/\ call.fn = "detect_anomalies"
     /\ call.method = "stl"
     /\ call.kwargs = NoTables
     /\ Len(call.series) = DefaultPeriod) =>
        LET rolling == DetectAnomalies(call.series, "rolling_z", NoTables,
                                       statsmodels_installed, prophet_installed, NoFit)
        IN  /\ ret.raised = "none"
            /\ ret.columns = rolling.columns
            /\ Len(ret.rows) = Len(rolling.rows)

\* the keywords the detector named by method takes
AcceptedKeywords(method) ==
    IF Lower(method) = "rolling_z" THEN {"window", "z_thresh"}
    ELSE IF Lower(method) = "prophet" THEN {"z_thresh"}
    ELSE {"period", "z_thresh"}

\* C8 as stated: detect_anomalies never raises, for any series, method name
\* and parameters the named method accepts.
C8_DetectNeverRaises ==
    (/\ call.fn = "detect_anomalies"
     /\ DOMAIN call.kwargs \subseteq AcceptedKeywords(call.method)) =>
        ret.raised = "none"

\* C9 as stated: stl_spikes propagates no exception; with the library
\* unavailable, and with the decomposition failing inside, it returns the
\* empty result.
C9_StlNeverRaises ==
    call.fn = "stl_spikes" =>
        /\ ret.raised = "none"
        /\ (~statsmodels_installed \/ ~call.fit.ok) => ret = Returned(StlColumns, <<>>)

\* C9 as amended: stl_spikes propagates no exception but ImportError; it
\* raises ImportError exactly when the library is unavailable and the series
\* has at least 2 x period points, and returns the empty result when the
\* decomposition fails inside.
C9_StlRaisesOnlyImportError ==
    call.fn = "stl_spikes" =>
        /\ ret.raised \in {"none", "ImportError"}
        /\ ret.raised = "ImportError" <=>
              (~statsmodels_installed /\ Len(call.series) >= 2 * call.period)
        /\ (statsmodels_installed /\ ~call.fit.ok) => ret = Returned(StlColumns, <<>>)

\* C9 witness: the library is there, the series is long enough, the
\* decomposition fails inside
C9_Witness ==
    /\ call.fn = "stl_spikes"
    /\ statsmodels_installed
    /\ Len(call.series) >= 2 * call.period
    /\ ~call.fit.ok
    /\ ret = Returned(StlColumns, <<>>)

\* C10: stl_spikes on a series of fewer than 2 x period points returns the
\* empty result and raises nothing, with and without the library.
C10_StlShortSeriesEmpty ==
    (call.fn = "stl_spikes" /\ Len(call.series) < 2 * call.period) =>
        ret = Returned(StlColumns, <<>>)

\* C10 witness: one period of data, the library not installed
C10_Witness ==
    /\ call.fn = "stl_spikes"
    /\ ~statsmodels_installed
    /\ Len(call.series) = call.period
    /\ ret = Returned(StlColumns, <<>>)

(***************************************************************************)
(* Properties of the summaries and of rank_spikes.                         *)
(***************************************************************************)
SummaryFunctions == {"summarize_top_spikes_overall", "summarize_top_spikes_by_drug",
                     "summarize_top_spikes_by_reaction"}

\* the gap-filled series a summary call works on
SummarySeries ==
    EnsureMonthlyIndex(IF call.fn = "summarize_top_spikes_overall" THEN call.csv.rows
                       ELSE SelectSeq(call.csv.rows, LAMBDA r : r.item = call.item))

\* C11 as stated: a summary asked for STL on a gap-filled series of at least
\* 2 and fewer than 24 months returns a note saying that it fell back to the
\* rolling Z-score.
C11_StlFallbackNoted ==
    (/\ call.fn \in SummaryFunctions
     /\ call.method = "stl"
     /\ call.csv.ok
     /\ call.item # ""
     /\ Len(SummarySeries) >= 2
     /\ Len(SummarySeries) < FallbackNoteLen) =>
        ret.note = "Fallback to rolling Z-score (insufficient data for STL)"

(***************************************************************************)
(* Properties of the key overlap analysis.                                 *)
(***************************************************************************)
\* the case ids that occur in a table
KeysIn(df) == {k \in OverlapKeys \ {NaN} : \E i \in 1..Len(df) : df[i].case_id = k}

\* s is p formatted with one decimal, for the percentage p = num / den
IsPercentOf(s, num, den) ==
    \E t \in 0..1000 :
        /\ s = ToString(t \div 10) \o "." \o ToString(t % 10)
        /\ (10 * num - t * den) * 2 <= den
        /\ (t * den - 10 * num) * 2 <= den

\* C12: over the case id sets L and R of the two tables,
\* _analyze_key_overlap reports overlap = |L \cap R|, left_only = |L \ R|,
\* right_only = |R \ L| and overlap_percent = 100 * overlap / |L| (0 for an
\* empty L), so overlap + left_only = |L| and overlap + right_only = |R|; DEMO
\* keys A, B, C with REAC keys A, B, X give 2, 1, 1 and 66.7, and the inner
\* join gives the two rows keyed A and B.
C12_KeyOverlapStatistics ==
    /\ call.fn = "_analyze_key_overlap" =>
          LET L == KeysIn(call.left_df)
              R == KeysIn(call.right_df)
          IN  /\ ret.overlap = Cardinality(L \cap R)
              /\ ret.left_only = Cardinality(L \ R)
              /\ ret.right_only = Cardinality(R \ L)
              /\ ret.overlap + ret.left_only = Cardinality(L)
              /\ ret.overlap + ret.right_only = Cardinality(R)
              /\ ret.left_keys = Cardinality(L)
              /\ ret.right_keys = Cardinality(R)
              /\ IF L = {} THEN ret.overlap_percent = "0.0"
                 ELSE IsPercentOf(ret.overlap_percent, 100 * Cardinality(L \cap R),
                                  Cardinality(L))
    /\ (/\ call.fn = "build_events"
        /\ [i \in 1..Len(call.DEMO) |-> call.DEMO[i].case_id] = <<"A", "B", "C">>
        /\ [i \in 1..Len(call.REAC) |-> call.REAC[i].case_id] = <<"A", "B", "X">>) =>
          /\ ret.log[1].overlap = 2
          /\ ret.log[1].left_only = 1
          /\ ret.log[1].right_only = 1
          /\ ret.log[1].overlap_percent = "66.7"
          /\ [i \in 1..Len(ret.events) |-> ret.events[i].case_id] = <<"A", "B">>

\* C12 witness: the scenario of DEMO keys A, B, C and REAC keys A, B, X
C12_Witness ==
    /\ call.fn = "build_events"
    /\ [i \in 1..Len(call.DEMO) |-> call.DEMO[i].case_id] = <<"A", "B", "C">>
    /\ [i \in 1..Len(call.REAC) |-> call.REAC[i].case_id] = <<"A", "B", "X">>
    /\ ret.log[1].overlap_percent = "66.7"
    /\ Len(ret.events) = 2

(***************************************************************************)
(* Properties of the drug step without a DRUG table.                       *)
(***************************************************************************)
\* the drug step of build_events, taken without a DRUG table
DrugAbsentStep ==
    /\ pc = "build_drug" /\ pc' = "build_outc"
    /\ "DRUG" \notin DOMAIN df_in'

AllDrugsUnknown(ev) == \A i \in 1..Len(ev) : ev[i].drug = "UNKNOWN"

\* C13: without a DRUG table the drug step keeps every event row, adds none
\* and sets drug to "UNKNOWN" in each, and the steps after it leave the value
\* alone, so every event build_events returns has drug = "UNKNOWN".
C13_NoDrugTableUnknown ==
    [][ /\ DrugAbsentStep =>
            /\ Len(events') = Len(events)
            /\ LeftRowsKept(events, events')
            /\ AllDrugsUnknown(events')
        /\ (pc \in {"build_outc", "build_clean"} /\ AllDrugsUnknown(events)) =>
            AllDrugsUnknown(events') ]_vars

\* C13 witness: build_events returned two events of a period without a DRUG
\* table, both with the sentinel
C13_Witness ==
    /\ pc = "build_done"
    /\ \E i \in 1..Len(log) : log[i].kind = "warning" /\ log[i].what = "no DRUG table"
    /\ Len(events) = 2
    /\ AllDrugsUnknown(events)

(***************************************************************************)
(* Properties of the monthly aggregations.                                 *)
(***************************************************************************)
Aggregators == {"monthly_overall", "monthly_by_reaction", "monthly_by_drug"}

AggregateColumns(fn) ==
    CASE fn = "monthly_overall" -> <<"ym", "count">>
      [] fn = "monthly_by_reaction" -> <<"ym", "reaction_pt", "count">>
      [] fn = "monthly_by_drug" -> <<"ym", "drug", "count">>

ValidDate(d) == d # NaT /\ d # Unparseable

NoValidDates(df) == \A i \in 1..Len(df.rows) : ~ValidDate(df.rows[i].event_date)

\* C14: called on an empty events table, or on one none of whose rows has a
\* valid date, each of monthly_overall, monthly_by_reaction and
\* monthly_by_drug returns without raising an empty table with the columns
\* (ym, count), (ym, reaction_pt, count) and (ym, drug, count).
C14_EmptyInputEmptyAggregate ==
    (pc = "returned" /\ call.fn \in Aggregators /\ NoValidDates(call.df)) =>
        /\ ret.raised = "none"
        /\ ret.rows = <<>>
        /\ ret.columns = AggregateColumns(call.fn)

C14_Witness ==
    /\ pc = "returned"
    /\ call.fn = "monthly_by_drug"
    /\ call.df.columns = {"event_date", "drug"}
    /\ Len(call.df.rows) = 2
    /\ call.df.rows[1].event_date = Unparseable
    /\ call.df.rows[2].event_date = NaT
    /\ call.df.rows[1].drug = "ASPIRIN"
    /\ ret.rows = <<>>
    /\ ret.columns = <<"ym", "drug", "count">>

(***************************************************************************)
(* Properties of rank_spikes.                                              *)
(***************************************************************************)
HasSpikeColumns(df) == {"is_spike", "z"} \subseteq Columns(df)

SpikeRows(df) ==
    IF HasSpikeColumns(df) THEN {j \in 1..Len(df.rows) : df.rows[j].is_spike} ELSE {}

\* row r of the ranked table is row j of the input
RankedFrom(r, df, j) ==
    /\ r.date = StrfTime(df.rows[j].index)
    /\ r.value = df.rows[j].value
    /\ r.z_sign = df.rows[j].z_sign
    /\ r.z2 = df.rows[j].z2

\* C15: rank_spikes returns without error a table of the columns rank, date,
\* value, z that holds only flagged rows of its input, each at most once, in
\* non-increasing order of |z|, at most k of them and the k of largest |z|,
\* ranked 1, 2, ... in that order with the date as a year-month-day string;
\* the table is empty when the input is empty, lacks the columns is_spike or
\* z, or has no flagged row.
C15_RankSpikesTopK ==
    (pc = "returned" /\ call.fn = "rank_spikes") =>
        LET spikes == SpikeRows(call.df)
            n == Len(ret.rows)
        IN  /\ ret.raised = "none"
            /\ ret.columns = <<"rank", "date", "value", "z">>
            /\ n = IF Cardinality(spikes) < call.k THEN Cardinality(spikes) ELSE call.k
            /\ \A i \in 1..n : ret.rows[i].rank = i
            /\ \A i \in 1..(n - 1) : ~AbsGreater(ret.rows[i + 1].z2, ret.rows[i].z2)
            /\ \E f \in [1..n -> spikes] :
                  /\ \A i \in 1..n : RankedFrom(ret.rows[i], call.df, f[i])
                  /\ \A i, j \in 1..n : i # j => f[i] # f[j]
                  /\ \A j \in spikes \ {f[i] : i \in 1..n} :
                        \A i \in 1..n : ~AbsGreater(call.df.rows[j].z2, ret.rows[i].z2)

C15_Witness ==
    /\ pc = "returned"
    /\ call.fn = "rank_spikes"
    /\ call.k = 1
    /\ Cardinality(SpikeRows(call.df)) = 2
    /\ Len(ret.rows) = 1
    /\ ret.rows[1].rank = 1
    /\ ret.rows[1].date = "2020-02-01"
    /\ \E j \in SpikeRows(call.df) : AbsGreater(ret.rows[1].z2, call.df.rows[j].z2)

(***************************************************************************)
(* Properties of process_faers_data and load_faers_ascii.                  *)
(***************************************************************************)
InRun == call.fn = "process_faers_data" /\ pc \in {"loop", "done"}

\* the quarter folders of the raw data directory
Discovered ==
    IF call.raw_dir.exists
    THEN call.raw_dir.entries \cap {FolderNames[i] : i \in 1..Len(FolderNames)}
    ELSE {}

\* the folders the run is to process: all of them, or the limit_quarters last
Selected ==
    IF call.limit_quarters > 0 /\ call.limit_quarters < Cardinality(Discovered)
    THEN {e \in Discovered :
            Cardinality({f \in Discovered : LowerOrder(f) > LowerOrder(e)})
                < call.limit_quarters}
    ELSE Discovered

Ascends(names) ==
    \A i \in 1..(Len(names) - 1) : LowerOrder(names[i]) < LowerOrder(names[i + 1])

QuarterOf(table) == table[1].quarter

\* a file that is there, well formed, valid UTF-8 and holds rows
SoundFile(file) ==
    file.present /\ file.well_formed /\ file.bytes = "utf-8" /\ file.content = "rows"

\* C16 as stated: every discovered period has been processed, once and in
\* sorted order, when process_faers_data is done.
C16_EveryDiscoveredPeriodProcessed ==
    (InRun /\ pc = "done") =>
        /\ {processed[i] : i \in 1..Len(processed)} = Discovered
        /\ Ascends(processed)

\* C16 amended: process_faers_data processes, once each and in sorted order,
\* every discovered period, or only the limit_quarters most recent ones
\* when that limit is given and smaller than their number; a period that
\* yields nothing adds no rows and the loop goes on to the end of the list;
\* the run ends with the empty result exactly when no period was discovered
\* or none contributed rows.  In load_faers_ascii a file that is missing or
\* malformed adds no table, and a sound file is loaded whatever became of
\* the other files.
C16_SelectedPeriodsProcessed ==
    /\ InRun =>
        /\ {quarters[i] : i \in 1..Len(quarters)} = Selected
        /\ Ascends(quarters)
        /\ processed = SubSeq(quarters, 1, qi)
        /\ pc = "done" => processed = quarters
        /\ Len(all_events) <= qi
        /\ \A i \in 1..Len(all_events) :
              /\ all_events[i] # <<>>
              /\ \E j \in 1..qi : QuarterOf(all_events[i]) = processed[j]
        /\ \A i \in 1..(Len(all_events) - 1) :
              LowerOrder(QuarterOf(all_events[i])) < LowerOrder(QuarterOf(all_events[i + 1]))
        /\ (pc = "loop" /\ qi > 0) =>
              IF events = <<>>
              THEN \A i \in 1..Len(all_events) : QuarterOf(all_events[i]) # processed[qi]
              ELSE /\ all_events # <<>>
                   /\ QuarterOf(all_events[Len(all_events)]) = processed[qi]
                   /\ Len(all_events[Len(all_events)]) = Len(events)
        /\ pc = "done" => (combined_events = <<>> <=> (Selected = {} \/ all_events = <<>>))
    /\ (pc = "returned" /\ call.fn = "load_faers_ascii") =>
        /\ ret.raised = "none"
        /\ \A t \in FileTypes :
              /\ (~call.folder[t].present \/ ~call.folder[t].well_formed) =>
                    t \notin DOMAIN ret.dataframes
              /\ SoundFile(call.folder[t]) =>
                    /\ t \in DOMAIN ret.dataframes
                    /\ ret.dataframes[t] = <<DataRow(t)>>

C16_Witness ==
    /\ pc = "done"
    /\ call.fn = "process_faers_data"
    /\ call.limit_quarters = 1
    /\ Discovered = {"faers_ascii_2023Q4", "faers_ascii_2024Q2"}
    /\ processed = <<"faers_ascii_2024Q2">>
    /\ combined_events # <<>>

\* a file that reads well but for bytes that are not valid UTF-8
Latin1File(file) ==
    file.present /\ file.well_formed /\ file.bytes # "utf-8" /\ file.content = "rows"

\* C17: a table file whose UTF-8 read fails with a decode error, in the
\* single-shot path as in the chunked path, is read again as Latin-1 and the
\* table is in the set load_faers_ascii returns.
C17_Latin1RetryLoadsTable ==
    (pc = "returned" /\ call.fn = "load_faers_ascii") =>
        \A t \in FileTypes :
            Latin1File(call.folder[t]) =>
                /\ t \in DOMAIN ret.dataframes
                /\ ret.outcome[t] = "loaded"

\* C18: load_quarter_data returns the empty events table without raising
\* whenever the REAC file of the folder is absent or fails to load, whatever
\* the other files are, and likewise whenever the DEMO file is absent.
C18_NoReacOrDemoSkipsPeriod ==
    (pc = "returned" /\ call.fn = "load_quarter_data") =>
        /\ ret.raised = "none"
        /\ (~call.folder["REAC"].present
            \/ "REAC" \notin ret.loaded
            \/ ~call.folder["DEMO"].present) => ret.events = <<>>

C18_Witness ==
    /\ pc = "returned"
    /\ call.fn = "load_quarter_data"
    /\ SoundFile(call.folder["REAC"])
    /\ ~call.folder["DEMO"].present
    /\ SoundFile(call.folder["DRUG"])
    /\ SoundFile(call.folder["OUTC"])
    /\ ret.loaded = {"REAC", "DRUG", "OUTC"}
    /\ ret.events = <<>>

FirstOfMonth(d) == (d \div 100) * 100 + 1

OverallCall ==
    /\ pc = "returned"
    /\ call.fn = "monthly_overall"
    /\ "event_date" \in call.df.columns

\* the rows of the table that carry a valid date
DatedRows(df) == {i \in 1..Len(df.rows) : ValidDate(df.rows[i].event_date)}

RowsOfMonth(df, ym) ==
    {i \in DatedRows(df) : FirstOfMonth(df.rows[i].event_date) = ym}

\* C19 as stated: the table monthly_overall returns has an entry for every
\* calendar month from the first to the last observed month.
C19_OverallSeriesWithoutGaps ==
    (OverallCall /\ DatedRows(call.df) # {}) =>
        LET months == {FirstOfMonth(call.df.rows[i].event_date) : i \in DatedRows(call.df)}
            range == DateRangeMS(SetMin(months), CHOOSE m \in months : \A n \in months : n <= m)
        IN  /\ Len(ret.rows) = Len(range)
            /\ \A k \in 1..Len(range) :
                  /\ ret.rows[k].ym = range[k]
                  /\ ret.rows[k].count = Cardinality(RowsOfMonth(call.df, range[k]))

\* C19 amended: the table monthly_overall returns has one entry for each
\* month in which at least one validly dated event falls, in ascending
\* order of the month, with that month's number of events as its count; a
\* month without events between the first and the last has no entry.
C19_OverallSeriesObservedMonths ==
    OverallCall =>
        /\ ret.raised = "none"
        /\ \A k \in 1..Len(ret.rows) :
              /\ ret.rows[k].count >= 1
              /\ ret.rows[k].count = Cardinality(RowsOfMonth(call.df, ret.rows[k].ym))
        /\ \A k \in 1..(Len(ret.rows) - 1) : ret.rows[k].ym < ret.rows[k + 1].ym
        /\ \A i \in DatedRows(call.df) :
              \E k \in 1..Len(ret.rows) :
                  ret.rows[k].ym = FirstOfMonth(call.df.rows[i].event_date)

C19_Witness ==
    /\ OverallCall
    /\ Len(call.df.rows) = 3
    /\ ret.rows = <<[ym |-> 20201101, count |-> 2], [ym |-> 20210201, count |-> 1]>>

GroupColumn(fn) ==
    CASE fn = "monthly_by_reaction" -> "reaction_pt"
      [] fn = "monthly_by_drug" -> "drug"
      [] OTHER -> NaN

AggregateCall ==
    /\ pc = "returned"
    /\ call.fn \in Aggregators
    /\ "event_date" \in call.df.columns
    /\ GroupColumn(call.fn) # NaN => GroupColumn(call.fn) \in call.df.columns

\* the rows the aggregation keeps: a valid date and, for the grouped
\* variants, a group key
IncludedRows ==
    {i \in DatedRows(call.df) :
        GroupColumn(call.fn) # NaN => call.df.rows[i][GroupColumn(call.fn)] # NaN}

\* row i of the input falls into entry r of the result
InBucket(i, r) ==
    /\ r.ym = FirstOfMonth(call.df.rows[i].event_date)
    /\ GroupColumn(call.fn) # NaN =>
          r[GroupColumn(call.fn)] = call.df.rows[i][GroupColumn(call.fn)]

\* every kept row is counted once, in the bucket of the first day of its
\* month, and no other row is counted
CountedOnce ==
    AggregateCall =>
        /\ \A k \in 1..Len(ret.rows) :
              ret.rows[k].count = Cardinality({i \in IncludedRows : InBucket(i, ret.rows[k])})
        /\ \A i \in IncludedRows :
              Cardinality({k \in 1..Len(ret.rows) : InBucket(i, ret.rows[k])}) = 1

\* the number of excluded rows is in the log
ExclusionLogged ==
    (AggregateCall /\ Cardinality(IncludedRows) < Len(call.df.rows)) =>
        \E n \in 1..Len(ret.log) :
            /\ ret.log[n].kind = "removed"
            /\ ret.log[n].count = Len(call.df.rows) - Cardinality(IncludedRows)

\* C20: each of monthly_overall, monthly_by_reaction and monthly_by_drug
\* leaves out the rows without a valid date (and, grouped, without a group
\* key), counts every other row once in the bucket of the first day of its
\* month, and logs the number of rows it left out.
C20_ExcludedRowsCountedAndLogged == CountedOnce /\ ExclusionLogged

(***************************************************************************)
(* Properties of the records the summaries return.                         *)
(***************************************************************************)
\* the method whose table detect_anomalies returned for the call's series:
\* the rolling Z-score whenever the table has its columns
MethodUsed ==
    LET anomaly_df == DetectAnomalies(SummarySeries, call.method, NoTables,
                                      statsmodels_installed, prophet_installed, call.fit)
    IN  IF anomaly_df.columns = RollingColumns THEN "rolling_z" ELSE call.method

\* C21: the record a summary returns with spikes names in its method field
\* the method that produced them (the rolling Z-score whenever
\* detect_anomalies fell back to it), and its n_months is the length of the
\* gap-filled series.
C21_MethodUsedReported ==
    (pc = "returned" /\ call.fn \in SummaryFunctions /\ ret.top_spikes # <<>>) =>
        /\ ret.method = MethodUsed
        /\ ret.n_months = Len(SummarySeries)

(***************************************************************************)
(* Properties of the diagnostics of build_events.                          *)
(***************************************************************************)
\* the number of distinct case ids of a table, missing ones aside
DistinctKeys(df) ==
    Cardinality({df[i].case_id : i \in {j \in 1..Len(df) : df[j].case_id # NaN}})

\* the two records a join leaves in the log: the key analysis of the tables
\* as they were before the join, then the join's own counts
JoinDiagnostics(records, left_before, left_name, right_name, join_type, after_count) ==
    /\ Len(records) = 2
    /\ records[1].kind = "overlap"
    /\ records[1].left_name = left_name
    /\ records[1].right_name = right_name
    /\ records[1].left_keys = DistinctKeys(left_before)
    /\ records[2].kind = "join"
    /\ records[2].join_type = join_type
    /\ records[2].before = Len(left_before)
    /\ records[2].after = after_count

Appended == SubSeq(log', Len(log) + 1, Len(log'))

NoJoinRecord(records) ==
    \A i \in 1..Len(records) : records[i].kind \notin {"join", "overlap"}

InnerStatsCall ==
    pc = "returned" /\ call.fn = "_log_join_stats" /\ call.join_method = "inner"

WideJoinCall == pc = "returned" /\ call.fn = "build_events"

\* the class the claim gives for b rows before and a rows after: the loss
\* 100*(b-a)/b against 20 and 10, on the counts
ClassOf(b, a) ==
    IF 5 * (b - a) > b THEN "HIGH"
    ELSE IF 10 * (b - a) > b THEN "MODERATE"
    ELSE IF b - a > 0 THEN "MINOR"
    ELSE "PERFECT"

\* the DEMO rows of the call that found no REAC row
UnmatchedDemoRows ==
    {i \in 1..Len(call.DEMO) :
        \A j \in 1..Len(call.REAC) : call.REAC[j].case_id # call.DEMO[i].case_id}

ClassifiedByLoss ==
    /\ InnerStatsCall =>
          /\ ret.class = ClassOf(call.before_count, call.after_count)
          /\ ret.rows_lost = call.before_count - call.after_count
    /\ WideJoinCall =>
          /\ ret.log[2].before = Len(call.DEMO)
          /\ ret.log[2].after = Len(ret.events)
          /\ ret.log[2].class = ClassOf(Len(call.DEMO), Len(ret.events))

CallKeys(df) == {df[i].case_id : i \in {j \in 1..Len(df) : df[j].case_id # NaN}}

NoMissingKey(df) == \A i \in 1..Len(df) : df[i].case_id # NaN

\* C24: the key analysis warns of a low overlap exactly when the share of
\* the DEMO keys that occur in REAC is below 80%: also when the two tables
\* have no key in common (0%, and the inner join then yields no event) and
\* when DEMO has no key at all.
C24_LowOverlapWarning ==
    WideJoinCall =>
        LET left_keys == CallKeys(call.DEMO)
            overlap == left_keys \cap CallKeys(call.REAC)
        IN  /\ ret.log[1].kind = "overlap"
            /\ ret.log[1].low_overlap <=>
                  (left_keys = {} \/ 5 * Cardinality(overlap) < 4 * Cardinality(left_keys))
            /\ overlap = {} =>
                  /\ ret.log[1].low_overlap
                  /\ ret.log[1].overlap_percent = "0.0"
                  /\ (NoMissingKey(call.DEMO) /\ NoMissingKey(call.REAC)) => ret.events = <<>>

C24_Witness ==
    /\ WideJoinCall
    /\ Cardinality(CallKeys(call.DEMO)) = 5
    /\ Cardinality(CallKeys(call.DEMO) \cap CallKeys(call.REAC)) = 4
    /\ ret.log[1].overlap_percent = "80.0"
    /\ ~ret.log[1].low_overlap

(***************************************************************************)
(* Properties of the schema normalisation.                                 *)
(***************************************************************************)
NormalizeColumnCall == pc = "returned" /\ call.fn = "_normalize_column"

\* the positions in the alias list of the aliases that name a column
AliasesPresent ==
    {k \in 1..Len(call.source_cols) : call.source_cols[k] \in call.df.columns}

\* the text of a cell without the white space around it; the missing cell
\* reads nan
Trimmed(cell) ==
    IF cell = MissingCell THEN <<"n", "a", "n">>
    ELSE LET inside == {i \in 1..Len(cell) : ~IsSpace(cell[i])}
         IN  IF inside = {} THEN <<>>
             ELSE SubSeq(cell, SetMin(inside), CHOOSE m \in inside : \A n \in inside : n <= m)

\* C25: _normalize_column returns, as trimmed strings, the values of the
\* first alias in the order of the alias list that is exactly, in the same
\* case, the name of a column, whichever later aliases are columns too; when
\* no alias is a column it returns without raising a column of the table's
\* length whose every value is missing.
C25_FirstAliasWins ==
    NormalizeColumnCall =>
        /\ ret.raised = "none"
        /\ Len(ret.column) = Len(call.df.rows)
        /\ IF AliasesPresent = {}
           THEN \A i \in 1..Len(ret.column) : ret.column[i] = MissingCell
           ELSE LET first == call.source_cols[SetMin(AliasesPresent)]
                IN  \A i \in 1..Len(ret.column) :
                        ret.column[i] = Trimmed(call.df.rows[i][first])

C25_Witness ==
    /\ NormalizeColumnCall
    /\ call.df.columns = {"CASEID", "caseid", "Primaryid"}
    /\ Len(call.df.rows) = 2
    /\ call.df.rows[2]["CASEID"] = <<" ", "2", "b", "\t", " ">>
    /\ ret.column[2] = <<"2", "b">>

NormalizeSchemaCall == pc = "returned" /\ call.fn = "normalize_faers_schema"

\* the values of the text column of the normalised table of the call
NormalizedValues ==
    IF call.file_type \in DOMAIN ret.normalized
    THEN LET rows == ret.normalized[call.file_type].rows
         IN  {rows[i][TextColumn(call.file_type)] : i \in 1..Len(rows)} \ {MissingCell}
    ELSE {}

UpperCased(text) == \A i \in 1..Len(text) : text[i] \notin {"a", "b", "n", "y"}

NoSpaceAround(text) == text = <<>> \/ (~IsSpace(text[1]) /\ ~IsSpace(text[Len(text)]))

SingleSpacesInside(text) ==
    \A i \in 1..Len(text) :
        IsSpace(text[i]) => /\ text[i] = " "
                            /\ i < Len(text) => ~IsSpace(text[i + 1])

\* C26: after normalize_faers_schema every country of DEMO, every drug of
\* DRUG and every reaction_pt of REAC is upper-cased, has no white space at
\* its ends, and has every run of white space inside it collapsed to one
\* space.
C26_TextColumnsCanonical ==
    (NormalizeSchemaCall /\ call.file_type \in {"DEMO", "DRUG", "REAC"}) =>
        \A text \in NormalizedValues :
            UpperCased(text) /\ NoSpaceAround(text) /\ SingleSpacesInside(text)

(***************************************************************************)
(* Properties of the optional joins of build_events.                       *)
(***************************************************************************)
\* the outcome rows of a case
OutcomeRowsOf(outcomes, case_id) ==
    {i \in 1..Len(outcomes) : outcomes[i].case_id = case_id /\ case_id # NaN}

AnySerious(outcomes, rows) ==
    IF \E i \in rows : outcomes[i].serious = "True" THEN "True" ELSE "False"

\* C27: when there is an outcomes table, the outcome step leaves one row per
\* event, and the serious flag of an event whose case has outcome rows is
\* the OR of the flags of all those rows; when there is no outcomes table,
\* every event gets serious = False.
C27_SeriousIsOrOfOutcomes ==
    [][pc = "build_outc" =>
         /\ Len(events') = Len(events)
         /\ \A i \in 1..Len(events) :
               /\ \A c \in DOMAIN events[i] : events'[i][c] = events[i][c]
               /\ IF HasTable(df_in', "OUTC")
                  THEN LET rows == OutcomeRowsOf(df_in'["OUTC"], events[i].case_id)
                       IN  rows # {} =>
                              events'[i].serious = AnySerious(df_in'["OUTC"], rows)
                  ELSE events'[i].serious = "False"]_vars

C27_Witness ==
    /\ pc = "build_clean"
    /\ HasTable(df_in, "OUTC")
    /\ Len(df_in["OUTC"]) = 2
    /\ df_in["OUTC"][1] = [case_id |-> "A", serious |-> "False"]
    /\ df_in["OUTC"][2] = [case_id |-> "A", serious |-> "True"]
    /\ \E i \in 1..Len(events) : events[i].case_id = "A" /\ events[i].serious = "True"

(***************************************************************************)
(* The warm-up of the rolling Z-score.                                     *)
(***************************************************************************)
DefaultRollingCall ==
    /\ pc = "returned"
    /\ call.fn = "rolling_zscore"
    /\ call.window = DefaultWindow
    /\ call.z_thresh = <<DefaultRollingZNum, DefaultRollingZDen>>
    /\ ret.rows # <<>>

\* C28: with the defaults of rolling_zscore (window 6, threshold 2.0) none of
\* the first five points is flagged: the point at position k < 6 stands in a
\* trailing window of k points, where |z| <= (k - 1) / sqrt(k), which is
\* below 2; the first point has z = 0.
C28_NoSpikeInWarmUp ==
    DefaultRollingCall =>
        \A k \in 1..(DefaultWindow - 1) :
            LET row == ret.rows[k]
            IN  /\ ~row.is_spike
                /\ k * row.z2[1] <= (k - 1) * (k - 1) * row.z2[2]
                /\ k = 1 => (row.z_sign = 0 /\ row.z2[1] = 0)

\* the bound is met at the fifth point, and the sixth point can be flagged
C28_Witness ==
    /\ DefaultRollingCall
    /\ \A i \in 1..4 : ret.rows[i].value = 10
    /\ ret.rows[5].value = 100
    /\ 5 * ret.rows[5].z2[1] = 16 * ret.rows[5].z2[2]
    /\ ~ret.rows[5].is_spike

(***************************************************************************)
(* Events without a row in an optional table that is there.                *)
(***************************************************************************)
EnrichCall == pc = "returned" /\ call.fn = "create_all_aggregations"

\* the reaction reports of the quarter: a DEMO row and a REAC row of one
\* case, with a reaction term
ReactionReports ==
    {p \in (1..Len(call.df_dict["DEMO"])) \X (1..Len(call.df_dict["REAC"])) :
        /\ call.df_dict["DEMO"][p[1]].case_id # NaN
        /\ call.df_dict["DEMO"][p[1]].case_id = call.df_dict["REAC"][p[2]].case_id
        /\ call.df_dict["REAC"][p[2]].reaction_pt # NaN}

NoRowFor(t, case_id) ==
    /\ HasTable(call.df_dict, t)
    /\ \A i \in 1..Len(call.df_dict[t]) : call.df_dict[t][i].case_id # case_id

\* the event of a reaction report is in the events with this value in col
EventWith(p, col, value) ==
    \E i \in 1..Len(call.events_df.rows) :
        LET e == call.events_df.rows[i]
        IN  /\ e.case_id = call.df_dict["DEMO"][p[1]].case_id
            /\ e.event_date = call.df_dict["DEMO"][p[1]].event_date
            /\ e.reaction_pt = call.df_dict["REAC"][p[2]].reaction_pt
            /\ e[col] = value

EventMonths ==
    {MonthStart(call.events_df.rows[i].event_date) : i \in 1..Len(call.events_df.rows)} \ {NaT}

EventsOfMonth(ym) ==
    {i \in 1..Len(call.events_df.rows) : MonthStart(call.events_df.rows[i].event_date) = ym}

\* the sum of the counts a table of monthly counts gives for a month
MonthTotal(table, ym) ==
    SumOf([i \in 1..Len(table.rows) |->
              IF table.rows[i].ym = ym THEN table.rows[i].count ELSE 0])

\* C29: when DRUG (OUTC) is there but has no row for the case of an event,
\* build_events keeps the event with a missing drug (a missing serious flag),
\* not with "UNKNOWN" (False); the events with a missing drug are counted by
\* monthly_overall and monthly_by_reaction and left out by monthly_by_drug.
C29_UnmatchedEventsKeptWithMissingValues ==
    EnrichCall =>
        /\ \A p \in ReactionReports :
              LET case_id == call.df_dict["DEMO"][p[1]].case_id
              IN  /\ NoRowFor("DRUG", case_id) => EventWith(p, "drug", NaN)
                  /\ NoRowFor("OUTC", case_id) => EventWith(p, "serious", NaN)
        /\ \A ym \in EventMonths :
              /\ MonthTotal(ret.overall, ym) = Cardinality(EventsOfMonth(ym))
              /\ MonthTotal(ret.by_reaction, ym) = Cardinality(EventsOfMonth(ym))
              /\ MonthTotal(ret.by_drug, ym) =
                    Cardinality({i \in EventsOfMonth(ym) : call.events_df.rows[i].drug # NaN})

\* DRUG and OUTC know case A only; the event of case B has neither value, is
\* counted over all and by reaction, and is not counted by drug
C29_Witness ==
    /\ EnrichCall
    /\ HasTable(call.df_dict, "DRUG") /\ call.df_dict["DRUG"][1].case_id = "A"
    /\ HasTable(call.df_dict, "OUTC") /\ call.df_dict["OUTC"][1].case_id = "A"
    /\ Len(call.events_df.rows) = 1
    /\ call.events_df.rows[1].case_id = "B"
    /\ call.events_df.rows[1].drug = NaN
    /\ call.events_df.rows[1].serious = NaN
    /\ Len(ret.overall.rows) = 1 /\ ret.overall.rows[1].count = 1
    /\ Len(ret.by_reaction.rows) = 1
    /\ ret.by_drug.rows = <<>>

(***************************************************************************)
(* The record every summary returns.                                       *)
(***************************************************************************)
SummaryCall == pc = "returned" /\ call.fn \in SummaryFunctions

SummaryKeys == {"method", "n_months", "top_spikes", "note"}

RanksInOrder == \A i \in 1..Len(ret.top_spikes) : ret.top_spikes[i].rank = i

\* the call met an error inside, or named no identifier, or one the table
\* does not have
FailedOrUnidentified ==
    \/ ret.note \in {"Error processing data", "No item specified", "No data found for item"}
    \/ ~call.csv.ok
    \/ call.fn # "summarize_top_spikes_overall" /\ call.item = ""

\* what the summaries hold for every path, identifier, method and k
SummaryRecordSound ==
    /\ SummaryKeys \subseteq DOMAIN ret
    /\ RanksInOrder
    /\ FailedOrUnidentified => (ret.n_months = 0 /\ ret.top_spikes = <<>>)

\* C30 as stated: every summary call returns a record with the keys method,
\* n_months, top_spikes and note, whose top_spikes has at most k entries,
\* ranked 1..len(top_spikes), and whose n_months is 0 and top_spikes empty
\* on an internal error or a missing identifier, for any k.
C30_AtMostKForAnyK ==
    SummaryCall => (SummaryRecordSound /\ Len(ret.top_spikes) <= call.k)

\* C30, amended: the same, with at most k entries for a k that is not
\* negative.
C30_SummaryRecordAlwaysReturned ==
    SummaryCall =>
        /\ SummaryRecordSound
        /\ call.k >= 0 => Len(ret.top_spikes) <= call.k

\* four months of a table of 24 are flagged and k = 3 keeps three of them
C30_Witness ==
    /\ SummaryCall
    /\ call.k = 3
    /\ call.method = "rolling_z"
    /\ Len(call.csv.rows) >= FallbackNoteLen
    /\ call.csv.rows[DefaultWindow].value = 100
    /\ call.csv.rows[FallbackNoteLen].value = 100
    /\ Len(ret.top_spikes) = 3
    /\ ret.top_spikes[3].rank = 3

=============================================================================
